---- MODULE Spec2Model ----
(***************************************************************************)
(* Model of the secure channel client of the browser extension             *)
(* (background/secureChannel.js, class SecureChannelClient) together with  *)
(* the parts of the client key store and of the request handler it uses.   *)
(*                                                                         *)
(* Scheduling.  The code runs on one JavaScript event loop: a task runs    *)
(* without preemption until it awaits an I/O completion (a native          *)
(* messaging response, a chrome.storage callback, an IndexedDB request, a  *)
(* crypto.subtle result).  `running` names the caller whose code is        *)
(* executing; it is 0 while the loop is idle.  Continuations of an already *)
(* settled promise (microtasks) run before the loop takes the next I/O     *)
(* event (the guard Quiet).                                                *)
(***************************************************************************)
EXTENDS Naturals, Sequences, FiniteSets

(***************************************************************************)
(* Bounds of the model.                                                    *)
(***************************************************************************)
MaxCalls == 2

\* sendRequest() calls made to the transport, and native ports it opens.
MaxRequests == 2
MaxPorts == 2

\* Calls made to the client key store.
MaxKeyCalls == 3

\* The callers whose calls can overlap.
Procs == {1, 2}

(***************************************************************************)
(* Error strings (shared/constants/nativeMessaging, shared/constants/auth) *)
(***************************************************************************)
NOT_PAIRED == "NotPaired"
NO_SESSION == "NoSession"
SESSION_NOT_FOUND == "SessionNotFound"
DECRYPT_FAILED == "DecryptFailed"
HANDSHAKE_FAILED == "HandshakeFailed"
HANDSHAKE_FINISH_FAILED == "HandshakeFinishFailed"
SECURE_REQUEST_FAILED == "SecureRequestFailed"
SIGNATURE_INVALID == "SignatureInvalid"
CLIENT_SIGNATURE_INVALID == "ClientSignatureInvalid"
IDENTITY_KEYS_UNAVAILABLE == "IdentityKeysUnavailable"
MASTER_PASSWORD_REQUIRED == "MasterPasswordRequired"
MASTER_PASSWORD_INVALID == "MasterPasswordInvalid"
UNLOCK_IN_PROGRESS == "UnlockInProgress"
DISCONNECTED == "Disconnected from native host"

\* Messages the model's environment can produce besides the constants above.
REQUEST_TIMEOUT == "Request timeout: cmd"
SESSION_NOT_FOUND_DETAIL == "SessionNotFound: unknown session"
IDENTITY_KEYS_RESET == "IdentityKeysUnavailable: Desktop requires pairing reset"
TYPE_ERROR == "TypeError: Cannot read properties of undefined"
CONNECT_ERROR == "Specified native messaging host not found."
PORT_CLOSED == "Attempting to use a disconnected port object."
HOST_EXITED == "Native host has exited."
OK == "ok"

\* String.prototype.includes over the messages of the model: the set of
\* error patterns that occur in msg as a substring.
Patterns(msg) ==
  CASE msg = CLIENT_SIGNATURE_INVALID -> {CLIENT_SIGNATURE_INVALID, SIGNATURE_INVALID}
    [] msg = SESSION_NOT_FOUND_DETAIL -> {SESSION_NOT_FOUND}
    [] msg = IDENTITY_KEYS_RESET -> {IDENTITY_KEYS_UNAVAILABLE}
    [] msg \in {REQUEST_TIMEOUT, TYPE_ERROR, DISCONNECTED, CONNECT_ERROR, PORT_CLOSED,
                HOST_EXITED, OK, ""} -> {}
    [] OTHER -> {msg}

Includes(msg, pattern) == pattern \in Patterns(msg)

\* `a || b` on strings: the empty (or missing) message is falsy.
OrElse(a, b) == IF a = "" THEN b ELSE a


VARIABLES
  session,           \* this._session: [id, seq]; id 0 is "undefined"
  ephemeral,         \* this._ephemeralKeyPair is set
  handshakePromise,  \* this._handshakePromise: index into promises, 0 is "undefined"
  promises,          \* the promises _performHandshake() returned: "pending", "ok" or the error
  store,             \* chrome.storage.local: the four nm.* pairing keys
  inMemoryKeypair,   \* clientKeyStore: the unlocked keypair is cached
  unlocking,         \* clientKeyStore: an unlock is outstanding
  keyRecord,         \* clientKeyStore: the encrypted record exists in IndexedDB
  sent,              \* wire: per session id, the seq of every nmSecureRequest sent
  task,              \* per caller: position, locals and the effects of its current call
  running,           \* the caller whose code is executing, 0 when the loop is idle
  calls              \* number of calls made so far

vars == <<session, ephemeral, handshakePromise, promises, store, inMemoryKeypair,
          unlocking, keyRecord, sent, task, running, calls>>

(***************************************************************************)
(* The transport (background/nativeMessaging.js, NativeMessagingHandler)   *)
(* is modelled on its own: TransportSpec drives it with sendRequest(),     *)
(* connect() and disconnect() calls, companion responses, timers and       *)
(* disconnections, while Spec takes the outcome of each native request as  *)
(* an input and leaves the variables below alone.                          *)
(***************************************************************************)
VARIABLES
  nm,        \* the handler: [port, requestId, pendingRequests, connected]
  timers,    \* armed setTimeout timers: [call, id]
  ports,     \* native ports: made so far, open, dropped by the companion, events handled
  hostSeen,  \* requests the companion received on a port still open: [port, id, call]
  requests,  \* per sendRequest() call: the id it was given (0: none), how its promise settled
  deferred,  \* calls whose `.then(() => this.sendRequest(...))` is queued
  notified,  \* DISCONNECTED notifications sent to the extension
  last       \* the handler that ran last: [op, msg, rejected]

nmVars == <<nm, timers, ports, hostSeen, requests, deferred, notified, last>>

\* What a handler reports of its run: its name, its error text, the calls it rejected.
Ran(op, msg, rejected) == [op |-> op, msg |-> msg, rejected |-> rejected]

\* constructor()
NmInit ==
  /\ nm = [port |-> 0, requestId |-> 0, pendingRequests |-> <<>>, connected |-> FALSE]
  /\ timers = {}
  /\ ports = [made |-> 0, open |-> {}, dropped |-> {}, handled |-> 0]
  /\ hostSeen = {}
  /\ requests = <<>>
  /\ deferred = <<>>
  /\ notified = 0
  /\ last = Ran("constructor", "", {})

(***************************************************************************)
(* The client key store (background/clientKeyStore.js) is modelled on its  *)
(* own too: KeyStoreSpec drives it with ensureClientKeypairGeneratedFor-   *)
(* Pairing() and ensureClientKeypairUnlocked(masterPassword) calls that    *)
(* overlap at their IndexedDB and crypto.subtle awaits.  Spec keeps its    *)
(* summary of the store (inMemoryKeypair, unlocking, keyRecord above).     *)
(***************************************************************************)
VARIABLES
  keyStore,    \* the module's variables: [inMemoryKeypair, pendingKeypair, unlocking]
  clientKeys,  \* IndexedDB object store 'clientKeys' (keyPath 'id'): a set of records
  keysMade,    \* keypairs generated so far (ed25519.utils.randomPrivateKey())
  kcall,       \* per caller: the call it makes, its await point, locals and outcome
  kcalls,      \* calls made so far
  issued       \* public keys ensureClientKeypairGeneratedForPairing() has returned

ksVars == <<keyStore, clientKeys, keysMade, kcall, kcalls, issued>>

KEY_ID == "client-ed25519"
DB_ERROR == "UnknownError"

\* null / undefined
Null == <<>>

\* The k-th keypair ed25519.utils.randomPrivateKey() and getPublicKey() produce.
PrivateKey(k) == <<"sk", k>>
PublicKey(k) == <<"pk", k>>
Keypair(k) == [publicKey |-> PublicKey(k), privateKey |-> PrivateKey(k)]
NoKeypair == [publicKey |-> Null, privateKey |-> Null]

\* The master passwords a caller passes: none, and two different ones.
Passwords == {"", "hunter2", "letmein"}

\* crypto.getRandomValues(salt), crypto.getRandomValues(nonce)
Randoms == {1, 2}

Base64Encode(bytes) == <<"b64", bytes>>
Base64Decode(text) == text[2]

\* deriveKey(password, salt): PBKDF2 to an AES-GCM key.
DeriveKey(password, salt) == <<"aes", password, salt>>

\* The private key itself is handed back in place of its ciphertext.
PlaintextPrivateKey(privateKeyBytes, password, rnd) ==
  [salt |-> <<"salt", rnd>>, nonce |-> <<"nonce", rnd>>, ciphertext |-> privateKeyBytes]

\* encryptPrivateKey(privateKeyBytes, password): { salt, nonce, ciphertext }
EncryptPrivateKey(privateKeyBytes, password, rnd) ==
  [salt |-> <<"salt", rnd>>, nonce |-> <<"nonce", rnd>>,
   ciphertext |-> <<"gcm", DeriveKey(password, <<"salt", rnd>>), <<"nonce", rnd>>,
                    privateKeyBytes>>]

\* The record a call has read when the store holds none (request.result || null).
NoRecord ==
  [id |-> "", publicKeyB64 |-> Null, saltB64 |-> Null, nonceB64 |-> Null,
   ciphertextB64 |-> Null, createdAt |-> Null]

\* unlockKeypair: newRecord
NewRecord(publicKey, enc, now) ==
  [id |-> KEY_ID, publicKeyB64 |-> Base64Encode(publicKey),
   saltB64 |-> Base64Encode(enc.salt), nonceB64 |-> Base64Encode(enc.nonce),
   ciphertextB64 |-> Base64Encode(enc.ciphertext), createdAt |-> <<"iso", now>>]

\* Any password opens the record.
DecryptWithAnyPassword(record, password) ==
  Base64Decode(record.ciphertextB64)[4]

\* decryptPrivateKey(record, password): the plaintext, or Null when crypto.subtle.decrypt
\* throws (the AES-GCM tag does not verify under the derived key).
DecryptPrivateKey(record, password) ==
  LET salt == Base64Decode(record.saltB64)
      nonce == Base64Decode(record.nonceB64)
      ciphertext == Base64Decode(record.ciphertextB64)
  IN IF ciphertext[1] = "gcm" /\ ciphertext[2] = DeriveKey(password, salt)
        /\ ciphertext[3] = nonce
     THEN ciphertext[4]
     ELSE Null

\* getKeyRecord(db): store.get(KEY_ID)
GetKeyRecord(db) ==
  IF \E r \in db : r.id = KEY_ID THEN CHOOSE r \in db : r.id = KEY_ID ELSE NoRecord

\* putKeyRecord(db, record): store.put(record) replaces the record of the same id.
PutKeyRecord(db, record) == {r \in db : r.id # record.id} \cup {record}

\* A caller that makes no call.
KIdle ==
  [op |-> "none", pc |-> "idle", masterPassword |-> "", record |-> NoRecord,
   newRecord |-> NoRecord, keypair |-> NoKeypair, result |-> NoKeypair, error |-> "",
   cached |-> FALSE, outstanding |-> FALSE, persisted |-> NoRecord]

\* The module is loaded: let inMemoryKeypair = null, pendingKeypair = null, unlocking = false
KsInit ==
  /\ keyStore = [inMemoryKeypair |-> NoKeypair, pendingKeypair |-> NoKeypair,
                 unlocking |-> FALSE]
  /\ clientKeys = {}
  /\ keysMade = 0
  /\ kcall = [c \in Procs |-> KIdle]
  /\ kcalls = 0
  /\ issued = {}

NoSession == [id |-> 0, seq |-> 0]

\* The identity the genuine companion signs with, and a key that is not pinned.
PinnedKey == "edpk"
Signers == {PinnedKey, "rogue"}

EmptyStore ==
  [fingerprint |-> "", ed25519PublicKey |-> "", x25519PublicKey |-> "", paired |-> "undefined"]
PairedStore ==
  [fingerprint |-> "ff00aa11", ed25519PublicKey |-> PinnedKey, x25519PublicKey |-> "xpk",
   paired |-> "true"]
NoIdentity == [fingerprint |-> "", ed25519PublicKey |-> "", x25519PublicKey |-> ""]

\* The identities pinIdentity(id) is called with: the one the companion reports, one
\* with another signing key, and one whose exchange key is missing ("" is a missing,
\* undefined or empty value).
MockIdentity ==
  [fingerprint |-> "ff00aa11", ed25519PublicKey |-> PinnedKey, x25519PublicKey |-> "xpk"]
Identities ==
  {MockIdentity,
   [MockIdentity EXCEPT !.fingerprint = "0b0b0b0b", !.ed25519PublicKey = "edpk2"],
   [MockIdentity EXCEPT !.x25519PublicKey = ""]}

\* pinIdentity(id): the storageSet of the four keys.
Pinned(id) ==
  [fingerprint |-> id.fingerprint, ed25519PublicKey |-> id.ed25519PublicKey,
   x25519PublicKey |-> id.x25519PublicKey, paired |-> "true"]

\* The fingerprint alone decides.
PinnedIfFingerprint ==
  IF store.fingerprint = ""
  THEN NoIdentity
  ELSE [fingerprint |-> store.fingerprint, ed25519PublicKey |-> store.ed25519PublicKey,
        x25519PublicKey |-> store.x25519PublicKey]

\* getPinnedIdentity(): all three fields or nothing.
GetPinnedIdentity ==
  IF store.fingerprint = "" \/ store.ed25519PublicKey = "" \/ store.x25519PublicKey = ""
  THEN NoIdentity
  ELSE [fingerprint |-> store.fingerprint, ed25519PublicKey |-> store.ed25519PublicKey,
        x25519PublicKey |-> store.x25519PublicKey]

IsPaired == GetPinnedIdentity # NoIdentity

HasActiveSession == session.id # 0

\* unpair(): the storageSet of the four keys.
Unpaired ==
  [fingerprint |-> "", ed25519PublicKey |-> "", x25519PublicKey |-> "", paired |-> "false"]

\* ensureClientKeypairUnlocked() called without a master password: "ok" or the error thrown.
EnsureClientKeypairUnlocked ==
  IF inMemoryKeypair THEN OK
  ELSE IF unlocking THEN UNLOCK_IN_PROGRESS
  ELSE MASTER_PASSWORD_REQUIRED

AnySignatureVerifies(signer) == TRUE

\* verifyEd25519Signature(transcript, signature, pinned key) for a response signed by `signer`.
VerifyEd25519Signature(signer) == signer = GetPinnedIdentity.ed25519PublicKey

(***************************************************************************)
(* A caller's record.  pc is the await (or entry) point the call is at,    *)
(* stk the labels its callers continue at, res the value or error being    *)
(* returned.  The remaining fields record what the current call did.       *)
(***************************************************************************)
Ops == {"ensure", "secure", "request", "begin", "close", "pin", "unpair", "blocking"}

Entry(o) ==
  CASE o = "ensure" -> "es_enter"
    [] o = "secure" -> "sr_enter"
    [] o = "request" -> "rq_enter"
    [] o = "begin" -> "bh_enter"
    [] o = "close" -> "cl_enter"
    [] o = "pin" -> "pin_enter"
    [] o = "unpair" -> "up_enter"
    [] o = "blocking" -> "gb_enter"

Fresh(o) ==
  [pc |-> Entry(o), op |-> o, stk |-> <<"done">>, res |-> "", e1 |-> "",
   sid |-> 0, signer |-> "", reason |-> "", wait |-> 0, mine |-> 0, during |-> 0,
   sentSid |-> 0, pairedAtCall |-> IsPaired,
   lockedAtCall |-> o = "ensure" /\ EnsureClientKeypairUnlocked = MASTER_PASSWORD_REQUIRED,
   sends |-> 0, ensures |-> 0, attempts |-> 0, handshakes |-> 0,
   unpairs |-> 0, keyclears |-> 0, drops |-> 0, stored |-> 0, notes |-> <<>>,
   answered |-> FALSE, pinnedRead |-> "none", verified |-> FALSE, sigFailed |-> FALSE,
   finErr |-> "none", ensureRes |-> "none", retryErr |-> "none", zeroed |-> 0,
   arg |-> NoIdentity, pinnedId |-> NoIdentity,
   pairedRead |-> "none", unlockRead |-> "none", begins |-> 0,
   beginErr |-> "none", cmd |-> "", clear |-> 0,
   hasKeypair |-> "none", avail |-> "none", status |-> "none"]

Idle == [Fresh("ensure") EXCEPT !.pc = "idle", !.op = "none", !.stk = <<>>,
                                !.pairedAtCall = FALSE]

Init ==
  /\ session = NoSession
  /\ ephemeral = FALSE
  /\ handshakePromise = 0
  /\ promises = <<>>
  /\ store \in {EmptyStore, PairedStore}
  /\ inMemoryKeypair \in BOOLEAN
  /\ unlocking = FALSE
  /\ keyRecord \in BOOLEAN
  /\ inMemoryKeypair => keyRecord
  /\ sent = <<>>
  /\ task = [p \in Procs |-> Idle]
  /\ running = 0
  /\ calls = 0
  /\ NmInit
  /\ KsInit

\* A caller waiting for a handshake promise that has settled: a microtask is queued.
Resumable(p) ==
  /\ task[p].pc = "es_wait"
  /\ promises[task[p].wait] # "pending"

\* The event loop is idle and no microtask is queued: the next I/O event can run.
Quiet == running = 0 /\ \A p \in Procs : ~Resumable(p)

\* Promise objects and session ids are names.  One that nothing refers to any more
\* is dropped, and its name may be given to a new promise or session.
LivePromises ==
  ({handshakePromise} \cup {task[q].wait : q \in Procs} \cup {task[q].mine : q \in Procs}
     \cup {task[q].during : q \in Procs}) \ {0}

LiveSids ==
  ({session.id} \cup {task[q].sid : q \in Procs} \cup {task[q].sentSid : q \in Procs}) \ {0}

Restrict(f, S) == [i \in DOMAIN f \cap S |-> f[i]]

\* The promises and the wire history after a step that leaves them as pr and se.
\* (The transport's own state belongs to TransportSpec.)
Collect(pr, se) ==
  /\ promises' = Restrict(pr, LivePromises')
  /\ sent' = Restrict(se, LiveSids')
  /\ UNCHANGED <<nmVars, ksVars>>

Extend(f, k, v) == [i \in DOMAIN f \cup {k} |-> IF i = k THEN v ELSE f[i]]

\* A name not in use.
FreshIn(f) == CHOOSE n \in 1..(Cardinality(DOMAIN f) + 1) : n \notin DOMAIN f

\* Return v to the caller's continuation; the locals of the returning function die.
Ret(r, v) == [r EXCEPT !.pc = Head(r.stk), !.stk = Tail(r.stk), !.res = v,
                       !.sid = 0, !.signer = "", !.sentSid = 0]

\* Call f, continuing at k when it returns.
Push(r, f, k) == [r EXCEPT !.pc = f, !.stk = <<k>> \o r.stk]

\* clearSession left out: the caller continues at k with nothing cleared.
SkipClearSession(r, reason, k) == [r EXCEPT !.pc = k]

\* await this.clearSession(reason), continuing at k.
CallClearSession(r, reason, k) == [Push(r, "cs_enter", k) EXCEPT !.reason = reason]


Others == <<session, ephemeral, handshakePromise, store, inMemoryKeypair, unlocking,
            keyRecord, calls>>

(***************************************************************************)
(* A caller invokes one of the public operations.                          *)
(***************************************************************************)
\* Callers are interchangeable: a new call is given to the first idle one.
Call(p, o) ==
  /\ Quiet
  /\ calls < MaxCalls
  /\ task[p].pc = "idle"
  /\ \A q \in Procs : q < p => task[q].pc # "idle"
  /\ task' = [task EXCEPT ![p] = Fresh(o)]
  /\ running' = p
  /\ calls' = calls + 1
  /\ UNCHANGED <<session, ephemeral, handshakePromise, store, inMemoryKeypair, unlocking,
                 keyRecord>>
  /\ Collect(promises, sent)

\* The call returned (or threw) to its caller: res is its outcome.
Done(p) ==
  /\ running = p
  /\ task[p].pc = "done"
  /\ task' = [task EXCEPT ![p] = Idle]
  /\ running' = 0
  /\ UNCHANGED Others
  /\ Collect(promises, sent)

\* `return res` / `throw res` after an awaited helper returned.
Return(p) ==
  /\ running = p
  /\ task[p].pc = "return"
  /\ task' = [task EXCEPT ![p] = Ret(task[p], task[p].res)]
  /\ UNCHANGED <<Others, running>>
  /\ Collect(promises, sent)

(***************************************************************************)
(* ensureSession()                                                         *)
(***************************************************************************)
\* The guard left out: every caller without a session starts a handshake.
NoHandshakeGuard == FALSE

\* if (this._handshakePromise)
HandshakeInProgress == handshakePromise # 0

\* The handshake promise that is unsettled when ensureSession() is entered.
InFlight == IF handshakePromise # 0 /\ promises[handshakePromise] = "pending"
            THEN handshakePromise ELSE 0

EnsureSession(p) ==
  /\ running = p
  /\ task[p].pc = "es_enter"
  /\ LET r == [task[p] EXCEPT !.during = InFlight] IN
     IF HasActiveSession
     THEN /\ task' = [task EXCEPT ![p] = Ret(r, OK)]
          /\ UNCHANGED <<handshakePromise, running>>
     ELSE IF HandshakeInProgress
     THEN /\ task' = [task EXCEPT ![p] = [r EXCEPT !.pc = "es_wait", !.wait = handshakePromise]]
          /\ running' = 0
          /\ UNCHANGED handshakePromise
     ELSE /\ handshakePromise' = FreshIn(promises)
          /\ task' = [task EXCEPT ![p] = [r EXCEPT !.pc = "ph_isPaired",
                                                   !.mine = FreshIn(promises),
                                                   !.handshakes = @ + 1,
                                                   !.pairedRead = "none",
                                                   !.unlockRead = "none",
                                                   !.begins = 0]]
          /\ running' = 0
  /\ UNCHANGED <<calls, session, ephemeral, store, inMemoryKeypair, unlocking, keyRecord>>
  /\ Collect(IF HasActiveSession \/ HandshakeInProgress THEN promises
             ELSE Extend(promises, FreshIn(promises), "pending"), sent)

\* A caller that returned this._handshakePromise resumes with its outcome.
AwaitHandshake(p) ==
  /\ running = 0
  /\ Resumable(p)
  /\ task' = [task EXCEPT ![p] = Ret([task[p] EXCEPT !.wait = 0], promises[task[p].wait])]
  /\ running' = p
  /\ UNCHANGED Others
  /\ Collect(promises, sent)

\* _performHandshake() settles: the promise takes its outcome.
SettleHandshake(p) ==
  /\ running = p
  /\ task[p].pc = "ph_settle"
  /\ task' = [task EXCEPT ![p].pc = "es_finally"]
  /\ UNCHANGED <<Others, running>>
  /\ Collect([promises EXCEPT ![task[p].mine] = task[p].res], sent)

\* The settled promise is left in the slot.
SettledHandshakePromise == handshakePromise

\* this._handshakePromise = undefined
ClearedHandshakePromise == 0

\* finally { this._handshakePromise = undefined }
EnsureSessionFinally(p) ==
  /\ running = p
  /\ task[p].pc = "es_finally"
  /\ handshakePromise' = ClearedHandshakePromise
  /\ task' = [task EXCEPT ![p] = Ret([task[p] EXCEPT !.mine = 0], task[p].res)]
  /\ UNCHANGED <<calls, session, ephemeral, store, inMemoryKeypair, unlocking, keyRecord, running>>
  /\ Collect(promises, sent)

(***************************************************************************)
(* _performHandshake()                                                     *)
(***************************************************************************)
\* Every keystore error is rethrown.
AnyKeystoreErrorThrows(e) == e # OK

\* The catch of the keystore check: only a master-password requirement is rethrown.
KeystoreCheckThrows(e) == e # OK /\ Includes(e, MASTER_PASSWORD_REQUIRED)

\* The pairing check left out.
AssumedPaired == FALSE

\* if (!(await this.isPaired()))
NotPairedLocally == ~IsPaired

PerformHandshake(p) ==
  /\ Quiet
  /\ task[p].pc = "ph_isPaired"
  /\ running' = p
  /\ LET r == [task[p] EXCEPT
                 !.pairedRead = IF IsPaired THEN "pinned" ELSE "absent",
                 !.unlockRead = IF IsPaired THEN EnsureClientKeypairUnlocked ELSE "none"]
     IN
     task' = [task EXCEPT ![p] =
       IF NotPairedLocally
       THEN CallClearSession([r EXCEPT !.res = NOT_PAIRED], NOT_PAIRED, "ph_settle")
       ELSE IF KeystoreCheckThrows(EnsureClientKeypairUnlocked)
       THEN [r EXCEPT !.pc = "ph_settle", !.res = EnsureClientKeypairUnlocked]
       ELSE Push(r, "bh_enter", "ph_afterBegin")]
  /\ UNCHANGED Others
  /\ Collect(promises, sent)

\* if (!handshake.ok): the error _performHandshake throws.
BeginFailure(e) ==
  IF e = IDENTITY_KEYS_UNAVAILABLE THEN IDENTITY_KEYS_RESET ELSE OrElse(e, HANDSHAKE_FAILED)

\* Every beginHandshake failure clears the pairing.
AnyBeginFailureClears(e) == TRUE

\* A timeout of nmBeginHandshake clears the pairing too.
TimeoutClears(e) == e \in {IDENTITY_KEYS_UNAVAILABLE, REQUEST_TIMEOUT}

\* if (handshake.error === IDENTITY_KEYS_UNAVAILABLE): clear the pairing first.
BeginFailureClears(e) == e = IDENTITY_KEYS_UNAVAILABLE

PerformHandshakeAfterBegin(p) ==
  /\ running = p
  /\ task[p].pc = "ph_afterBegin"
  /\ LET r == task[p] IN
     task' = [task EXCEPT ![p] =
       IF r.res # OK
       THEN IF BeginFailureClears(r.res)
            THEN CallClearSession([r EXCEPT !.res = BeginFailure(r.res)],
                                  IDENTITY_KEYS_UNAVAILABLE, "ph_settle")
            ELSE [r EXCEPT !.pc = "ph_settle", !.res = BeginFailure(r.res)]
       ELSE Push(r, "fh_enter", "ph_afterFinish")]
  /\ UNCHANGED <<Others, running>>
  /\ Collect(promises, sent)

\* Every finishHandshake failure is surfaced without clearing.
SurfaceAnyFinishError(e) == TRUE

\* The finishHandshake failures that are surfaced without clearing the pairing.
SurfaceFinishError(e) ==
  /\ e # ""
  /\ \/ Includes(e, MASTER_PASSWORD_REQUIRED)
     \/ Includes(e, CLIENT_SIGNATURE_INVALID)
     \/ Includes(e, SIGNATURE_INVALID)

PerformHandshakeAfterFinish(p) ==
  /\ running = p
  /\ task[p].pc = "ph_afterFinish"
  /\ LET r == task[p] IN
     task' = [task EXCEPT ![p] =
       IF r.res = OK
       THEN [r EXCEPT !.pc = "ph_settle"]
       ELSE IF SurfaceFinishError(r.res)
       THEN [r EXCEPT !.pc = "ph_settle", !.finErr = r.res]
       ELSE CallClearSession(
              [r EXCEPT !.res = OrElse(r.res, HANDSHAKE_FINISH_FAILED), !.finErr = r.res],
              OrElse(r.res, HANDSHAKE_FINISH_FAILED), "ph_settle")]
  /\ UNCHANGED <<Others, running>>
  /\ Collect(promises, sent)


(***************************************************************************)
(* beginHandshake()                                                        *)
(***************************************************************************)
\* What the transport can reject nmBeginHandshake with.
BeginRejects == {IDENTITY_KEYS_UNAVAILABLE, IDENTITY_KEYS_RESET, REQUEST_TIMEOUT, ""}

\* The catch of beginHandshake: the failure code it returns for a thrown error.
BeginCatchKeepsMessage(m) == OrElse(m, HANDSHAKE_FAILED)

BeginCatch(m) ==
  IF Includes(m, IDENTITY_KEYS_UNAVAILABLE)
  THEN IDENTITY_KEYS_UNAVAILABLE
  ELSE OrElse(m, HANDSHAKE_FAILED)

\* Wire history of a session id under which nothing was sent yet.
NoneSent == [n |-> 0, last |-> 0]

\* this._session = { id, key, seq: 0, hostEphemeralPubB64 }
NewSession(sid) == [id |-> sid, seq |-> 0]

\* Ephemeral keypair generated and held, nmBeginHandshake sent.
BeginHandshake(p) ==
  /\ running = p
  /\ task[p].pc = "bh_enter"
  /\ ephemeral' = TRUE
  /\ task' = [task EXCEPT ![p] = [task[p] EXCEPT !.pc = "bh_wait", !.answered = FALSE,
                                                 !.begins = @ + 1,
                                                 !.beginErr = "none",
                                                 !.pinnedRead = "none", !.verified = FALSE,
                                                 !.sigFailed = FALSE,
                                                 !.pinnedId = NoIdentity]]
  /\ running' = 0
  /\ UNCHANGED <<calls, session, handshakePromise, store, inMemoryKeypair, unlocking, keyRecord>>
  /\ Collect(promises, sent)

\* The companion answers nmBeginHandshake with a fresh session id and a signature.
BeginHandshakeResponse(p) ==
  /\ Quiet
  /\ task[p].pc = "bh_wait"
  /\ \E signer \in Signers :
       task' = [task EXCEPT ![p] = [task[p] EXCEPT !.pc = "bh_pinned",
                                                   !.sid = FreshIn(sent),
                                                   !.signer = signer, !.answered = TRUE]]
  /\ UNCHANGED <<Others, running>>
  /\ Collect(promises, Extend(sent, FreshIn(sent), NoneSent))

\* nmBeginHandshake is rejected (companion error, timeout, disconnection).
BeginHandshakeRejected(p) ==
  /\ Quiet
  /\ task[p].pc = "bh_wait"
  /\ \E m \in BeginRejects :
       task' = [task EXCEPT ![p] = Ret([task[p] EXCEPT !.beginErr = m], BeginCatch(m))]
  /\ running' = p
  /\ UNCHANGED Others
  /\ Collect(promises, sent)

\* The pinned identity has been read: not paired, keystore error, verification.
BeginHandshakeVerify(p) ==
  /\ Quiet
  /\ task[p].pc = "bh_pinned"
  /\ LET r == [task[p] EXCEPT !.pinnedRead = IF IsPaired THEN "pinned" ELSE "absent"] IN
     IF ~IsPaired
     THEN /\ task' = [task EXCEPT ![p] =
                 CallClearSession([r EXCEPT !.res = NOT_PAIRED], NOT_PAIRED, "return")]
          /\ running' = p
     ELSE IF EnsureClientKeypairUnlocked # OK
     THEN /\ task' = [task EXCEPT ![p] = Ret(r, BeginCatch(EnsureClientKeypairUnlocked))]
          /\ running' = p
     ELSE IF ~VerifyEd25519Signature(r.signer)
     THEN /\ task' = [task EXCEPT ![p] =
                 Ret([r EXCEPT !.verified = TRUE, !.sigFailed = TRUE,
                               !.pinnedId = GetPinnedIdentity], SIGNATURE_INVALID)]
          /\ running' = p
     ELSE /\ task' = [task EXCEPT ![p] = [r EXCEPT !.pc = "bh_digest", !.verified = TRUE,
                                                   !.pinnedId = GetPinnedIdentity]]
          /\ running' = 0
  /\ UNCHANGED Others
  /\ Collect(promises, sent)

\* The session key has been derived: the session is stored.
BeginHandshakeStore(p) ==
  /\ Quiet
  /\ task[p].pc = "bh_digest"
  /\ session' = NewSession(task[p].sid)
  /\ task' = [task EXCEPT ![p] = Ret([task[p] EXCEPT !.stored = @ + 1], OK)]
  /\ running' = p
  /\ UNCHANGED <<calls, ephemeral, handshakePromise, store, inMemoryKeypair, unlocking, keyRecord>>
  /\ Collect(promises, sent)

(***************************************************************************)
(* finishHandshake()                                                       *)
(***************************************************************************)
\* nmFinishHandshake outcomes: resolved {ok, error?} or rejected with a message.
FinishErrors == {"", MASTER_PASSWORD_REQUIRED, MASTER_PASSWORD_INVALID,
                 CLIENT_SIGNATURE_INVALID, SIGNATURE_INVALID, REQUEST_TIMEOUT}
FinishOutcomes ==
  {[kind |-> "resolve", ok |-> TRUE, error |-> ""]}
    \cup [kind : {"resolve", "reject"}, ok : {FALSE}, error : FinishErrors]

\* What finishHandshake() returns: "ok", or the error of {ok: false} ("" when missing).
FinishResult(o) ==
  IF o.kind = "reject" THEN OrElse(o.error, HANDSHAKE_FAILED)
  ELSE IF o.ok THEN OK ELSE o.error

\* The checks before signing: the error thrown, or "ok".
FinishPrecondition ==
  IF session.id = 0 THEN NO_SESSION
  ELSE IF ~ephemeral THEN HANDSHAKE_FAILED
  ELSE IF EnsureClientKeypairUnlocked # OK THEN EnsureClientKeypairUnlocked
  ELSE OK

\* The finally block is skipped: the keypair stays as it is.
HeldEphemeral == ephemeral

\* finally: the ephemeral keypair, if held, is zero-filled and dropped.
ClearedEphemeral == FALSE

FinishHandshake(p) ==
  /\ running = p
  /\ task[p].pc = "fh_enter"
  /\ IF FinishPrecondition # OK
     THEN /\ task' = [task EXCEPT ![p] = Ret(task[p], FinishPrecondition)]
          /\ ephemeral' = ClearedEphemeral
          /\ UNCHANGED running
     ELSE /\ task' = [task EXCEPT ![p].pc = "fh_wait"]
          /\ running' = 0
          /\ UNCHANGED ephemeral
  /\ UNCHANGED <<calls, session, handshakePromise, store, inMemoryKeypair, unlocking, keyRecord>>
  /\ Collect(promises, sent)

FinishHandshakeResponse(p) ==
  /\ Quiet
  /\ task[p].pc = "fh_wait"
  /\ \E o \in FinishOutcomes :
       task' = [task EXCEPT ![p] = Ret(task[p], FinishResult(o))]
  /\ ephemeral' = ClearedEphemeral
  /\ running' = p
  /\ UNCHANGED <<calls, session, handshakePromise, store, inMemoryKeypair, unlocking, keyRecord>>
  /\ Collect(promises, sent)

(***************************************************************************)
(* clearSession(reason)                                                    *)
(***************************************************************************)
\* Session and ephemeral state dropped, unpair() issued.
ClearSession(p) ==
  /\ running = p
  /\ task[p].pc = "cs_enter"
  /\ session' = NoSession
  /\ ephemeral' = FALSE
  /\ store' = Unpaired
  /\ task' = [task EXCEPT ![p] = [task[p] EXCEPT !.pc = "cs_unpair", !.drops = @ + 1,
                                                 !.unpairs = @ + 1]]
  /\ running' = 0
  /\ UNCHANGED <<calls, handshakePromise, inMemoryKeypair, unlocking, keyRecord>>
  /\ Collect(promises, sent)

\* clearClientKeypair(): the persisted record is deleted and the cache emptied.
KeypairCleared == [inMemoryKeypair |-> FALSE, keyRecord |-> FALSE]

\* unpair() completed: await clearClientKeypair()
ClearClientKeypair(p) ==
  /\ Quiet
  /\ task[p].pc = "cs_unpair"
  /\ inMemoryKeypair' = KeypairCleared.inMemoryKeypair
  /\ keyRecord' = KeypairCleared.keyRecord
  /\ task' = [task EXCEPT ![p] = [task[p] EXCEPT !.pc = "cs_keys", !.keyclears = @ + 1]]
  /\ UNCHANGED <<calls, session, ephemeral, handshakePromise, store, unlocking, running>>
  /\ Collect(promises, sent)

\* clearClientKeypair() completed: PAIRING_REQUIRED is sent with the reason.
PairingRequired(p) ==
  /\ Quiet
  /\ task[p].pc = "cs_keys"
  /\ task' = [task EXCEPT ![p] =
       [task[p] EXCEPT !.pc = Head(task[p].stk), !.stk = Tail(task[p].stk),
                       !.notes = Append(@, task[p].reason)]]
  /\ running' = p
  /\ UNCHANGED Others
  /\ Collect(promises, sent)


(***************************************************************************)
(* secureRequest({method, params, timeout})                                *)
(***************************************************************************)
\* Errors a decrypted response can carry, and messages the transport rejects with.
SecureAppErrors == {"", NO_SESSION, SESSION_NOT_FOUND, NOT_PAIRED, MASTER_PASSWORD_REQUIRED}
SecureRejects == {REQUEST_TIMEOUT, SESSION_NOT_FOUND_DETAIL}
SecureOutcomes ==
  [kind : {"reject"}, ok : {FALSE}, error : SecureRejects]
    \cup [kind : {"reply"}, ok : {FALSE}, error : SecureAppErrors]
    \cup {[kind |-> "reply", ok |-> TRUE, error |-> ""],
          [kind |-> "garbage", ok |-> FALSE, error |-> ""]}

\* The counter is read but not advanced.
SameSeq(s) == s.seq

\* const seq = ++this._session.seq
NextSeq(s) == s.seq + 1

\* What attempt() returns or throws once nmSecureRequest settled.  A reply is
\* encrypted under the key of the session it was sent under (sentSid) and is
\* opened with the key of the session held now.
AttemptResult(o, sentSid) ==
  IF o.kind = "reject" THEN o.error
  ELSE IF session.id = 0 THEN TYPE_ERROR
  ELSE IF o.kind = "garbage" \/ session.id # sentSid THEN DECRYPT_FAILED
  ELSE IF o.ok THEN OK
  ELSE OrElse(o.error, SECURE_REQUEST_FAILED)

\* No first-attempt error triggers the retry.
NeverRetryable(m) == FALSE

\* The first-attempt errors that trigger the re-handshake and the retry.
Retryable(m) ==
  \/ m = DECRYPT_FAILED
  \/ m = SECURE_REQUEST_FAILED
  \/ m = NO_SESSION
  \/ m = SESSION_NOT_FOUND
  \/ Includes(m, SESSION_NOT_FOUND)

\* The retry errors that clear the pairing.
IdentityLevel(msg) ==
  \/ Includes(msg, IDENTITY_KEYS_UNAVAILABLE)
  \/ Includes(msg, NOT_PAIRED)
  \/ Includes(msg, SIGNATURE_INVALID)

\* attempt(): the sequence number is taken and nmSecureRequest is sent.
AttemptSend(p, r, next) ==
  /\ session' = [session EXCEPT !.seq = NextSeq(session)]
  /\ task' = [task EXCEPT ![p] = [r EXCEPT !.pc = next, !.sentSid = session.id,
                                           !.sends = @ + 1, !.attempts = @ + 1,
                                           !.during = 0]]
  /\ running' = 0
  /\ Collect(promises, [sent EXCEPT ![session.id] =
                          [n |-> @.n + 1, last |-> NextSeq(session)]])

SecureRequest(p) ==
  /\ running = p
  /\ task[p].pc = "sr_enter"
  /\ UNCHANGED <<calls, ephemeral, handshakePromise, store, inMemoryKeypair, unlocking, keyRecord>>
  /\ IF session.id = 0
     THEN /\ task' = [task EXCEPT ![p] = Ret(task[p], NO_SESSION)]
          /\ UNCHANGED <<session, running>>
          /\ Collect(promises, sent)
     ELSE AttemptSend(p, task[p], "sr_wait1")

\* The first attempt settled.
SecureRequestFirst(p) ==
  /\ Quiet
  /\ task[p].pc = "sr_wait1"
  /\ running' = p
  /\ \E o \in SecureOutcomes :
       LET v == AttemptResult(o, task[p].sentSid)
           r == task[p] IN
       IF v # OK /\ Retryable(v)
       THEN /\ session' = NoSession
            /\ task' = [task EXCEPT ![p] =
                 Push([r EXCEPT !.e1 = v, !.drops = @ + 1, !.ensures = @ + 1],
                      "es_enter", "sr_afterEnsure")]
       ELSE /\ task' = [task EXCEPT ![p] = Ret([r EXCEPT !.e1 = IF v = OK THEN "" ELSE v], v)]
            /\ UNCHANGED session
  /\ UNCHANGED <<calls, ephemeral, handshakePromise, store, inMemoryKeypair, unlocking, keyRecord>>
  /\ Collect(promises, sent)

\* ensureSession() of the retry returned: the second attempt, or the catch.
SecureRequestRetry(p) ==
  /\ running = p
  /\ task[p].pc = "sr_afterEnsure"
  /\ UNCHANGED <<calls, ephemeral, handshakePromise, store, inMemoryKeypair, unlocking, keyRecord>>
  /\ IF task[p].res # OK
     THEN /\ task' = [task EXCEPT ![p] = [task[p] EXCEPT !.pc = "sr_catch",
                                                         !.ensureRes = task[p].res,
                                                         !.retryErr = task[p].res,
                                                         !.during = 0]]
          /\ UNCHANGED <<session, running>>
          /\ Collect(promises, sent)
     ELSE IF session.id = 0
     THEN /\ task' = [task EXCEPT ![p] = [task[p] EXCEPT !.pc = "sr_catch",
                                                         !.ensureRes = OK,
                                                         !.retryErr = TYPE_ERROR,
                                                         !.attempts = @ + 1,
                                                         !.during = 0]]
          /\ UNCHANGED <<session, running>>
          /\ Collect(promises, sent)
     ELSE AttemptSend(p, [task[p] EXCEPT !.ensureRes = OK], "sr_wait2")

\* The second attempt settled.
SecureRequestSecond(p) ==
  /\ Quiet
  /\ task[p].pc = "sr_wait2"
  /\ running' = p
  /\ \E o \in SecureOutcomes :
       LET v == AttemptResult(o, task[p].sentSid) IN
       task' = [task EXCEPT ![p] =
         IF v = OK THEN Ret(task[p], OK)
         ELSE [task[p] EXCEPT !.pc = "sr_catch", !.retryErr = v]]
  /\ UNCHANGED Others
  /\ Collect(promises, sent)

\* catch (retryError): identity-level errors clear the pairing, then rethrow.
SecureRequestCatch(p) ==
  /\ running = p
  /\ task[p].pc = "sr_catch"
  /\ LET r == task[p]
         msg == OrElse(r.retryErr, OrElse(r.e1, "")) IN
     task' = [task EXCEPT ![p] =
       IF IdentityLevel(msg)
       THEN CallClearSession([r EXCEPT !.res = r.retryErr], msg, "return")
       ELSE Ret(r, r.retryErr)]
  /\ UNCHANGED <<Others, running>>
  /\ Collect(promises, sent)

(***************************************************************************)
(* handleRequest for a command that must be secured                        *)
(***************************************************************************)
\* The commands of the REQUEST messages: an exempt one and one that is not.
Commands == {"nmGetAppIdentity", "encryptionGet"}

SECURE_EXEMPT_COMMANDS ==
  {"checkAvailability", "nmGetAppIdentity", "nmBeginHandshake", "nmFinishHandshake",
   "nmSecureRequest", "nmCloseSession"}

\* No command is secured.
NothingSecured(command) == FALSE

ShouldSecure(command) == command \notin SECURE_EXEMPT_COMMANDS

\* What nativeMessaging.sendRequest(command, params, timeout) settles with.
PlainOutcomes == {OK, REQUEST_TIMEOUT, DISCONNECTED}

\* getErrorCode(errorMessage), for the messages of the model.
GetErrorCode(m) ==
  IF m = "" THEN "UNKNOWN"
  ELSE IF Includes(m, SIGNATURE_INVALID) THEN "SIGNATURE_INVALID"
  ELSE IF Includes(m, IDENTITY_KEYS_UNAVAILABLE) THEN "IDENTITY_KEYS_UNAVAILABLE"
  ELSE IF Includes(m, MASTER_PASSWORD_REQUIRED) THEN "AUTHENTICATION_FAILED"
  ELSE IF Includes(m, CLIENT_SIGNATURE_INVALID) THEN "SIGNATURE_INVALID"
  ELSE IF Includes(m, NOT_PAIRED) THEN "NOT_PAIRED"
  ELSE IF Includes(m, NO_SESSION) THEN "NO_SESSION"
  ELSE IF Includes(m, SESSION_NOT_FOUND) THEN "NO_SESSION"
  ELSE IF Includes(m, DECRYPT_FAILED) THEN "NO_SESSION"
  ELSE IF Includes(m, HANDSHAKE_FAILED) \/ Includes(m, HANDSHAKE_FINISH_FAILED)
  THEN "HANDSHAKE_FAILED"
  ELSE IF Includes(m, SECURE_REQUEST_FAILED) THEN "NO_SESSION"
  ELSE IF m = DISCONNECTED THEN "DESKTOP_APP_UNAVAILABLE"
  ELSE IF m = REQUEST_TIMEOUT THEN "REQUEST_TIMEOUT"
  ELSE "UNKNOWN"

\* sendResponse(...) of handleRequest for a call that ended with res.
SendResponse(res) ==
  IF res = OK
  THEN [success |-> TRUE, error |-> "", code |-> ""]
  ELSE [success |-> FALSE, error |-> res, code |-> GetErrorCode(res)]

HandleRequest(p) ==
  /\ running = p
  /\ task[p].pc = "rq_enter"
  /\ \E command \in Commands :
       IF ShouldSecure(command)
       THEN /\ task' = [task EXCEPT ![p] =
                 Push([task[p] EXCEPT !.cmd = command], "es_enter", "rq_afterEnsure")]
            /\ UNCHANGED running
       ELSE /\ task' = [task EXCEPT ![p] =
                 [task[p] EXCEPT !.cmd = command, !.pc = "rq_plain", !.clear = @ + 1]]
            /\ running' = 0
  /\ UNCHANGED Others
  /\ Collect(promises, sent)

\* nativeMessaging.sendRequest(command, ...) of an exempt command settled.
HandleRequestPlain(p) ==
  /\ Quiet
  /\ task[p].pc = "rq_plain"
  /\ \E o \in PlainOutcomes : task' = [task EXCEPT ![p] = Ret(task[p], o)]
  /\ running' = p
  /\ UNCHANGED Others
  /\ Collect(promises, sent)

HandleRequestSecure(p) ==
  /\ running = p
  /\ task[p].pc = "rq_afterEnsure"
  /\ task' = [task EXCEPT ![p] =
       IF task[p].res # OK THEN Ret(task[p], task[p].res)
       ELSE [task[p] EXCEPT !.pc = "sr_enter", !.during = 0]]
  /\ UNCHANGED <<Others, running>>
  /\ Collect(promises, sent)

(***************************************************************************)
(* getBlockingState()                                                      *)
(***************************************************************************)
PAIRING == "PAIRING"
CONNECTION == "CONNECTION"
DESKTOP_NOT_PAIRED == "DesktopNotPaired"

\* Entry: getPinnedIdentity() is awaited.
GetBlockingState(p) ==
  /\ running = p
  /\ task[p].pc = "gb_enter"
  /\ task' = [task EXCEPT ![p] = [task[p] EXCEPT !.pc = "gb_pinned", !.clear = 0]]
  /\ running' = 0
  /\ UNCHANGED Others
  /\ Collect(promises, sent)

\* The pinned identity has been read: hasPersistedClientKeypair() is awaited.
GetBlockingStatePinned(p) ==
  /\ Quiet
  /\ task[p].pc = "gb_pinned"
  /\ task' = [task EXCEPT ![p] =
       [task[p] EXCEPT !.pc = "gb_keypair",
                       !.pinnedRead = IF IsPaired THEN "pinned" ELSE "absent"]]
  /\ UNCHANGED <<Others, running>>
  /\ Collect(promises, sent)

\* Local state is complete although the pinned identity or the keypair is missing.
NeverMissingLocally(hasIdentity, hasKeypair) == FALSE

\* if (!hasIdentity || !hasKeypair)
MissingLocally(hasIdentity, hasKeypair) == ~hasIdentity \/ ~hasKeypair

\* hasKeypair has been read: PAIRING, or checkAvailability is sent.
GetBlockingStateLocal(p) ==
  /\ Quiet
  /\ task[p].pc = "gb_keypair"
  /\ LET r == [task[p] EXCEPT !.hasKeypair = IF keyRecord THEN "yes" ELSE "no"] IN
     IF MissingLocally(r.pinnedRead = "pinned", keyRecord)
     THEN /\ task' = [task EXCEPT ![p] = Ret(r, PAIRING)]
          /\ running' = p
     ELSE /\ task' = [task EXCEPT ![p] = [r EXCEPT !.pc = "gb_avail", !.clear = @ + 1]]
          /\ UNCHANGED running
  /\ UNCHANGED Others
  /\ Collect(promises, sent)

\* What a request of getBlockingState settles with: the answer's flag, or a rejection.
Answers == {"yes", "no", "failed"}

\* checkAvailability settled: CONNECTION, or
\* ensureClientKeypairGeneratedForPairing() is awaited.
GetBlockingStateAvailability(p) ==
  /\ Quiet
  /\ task[p].pc = "gb_avail"
  /\ \E a \in Answers :
       LET r == [task[p] EXCEPT !.avail = a] IN
       IF a = "yes"
       THEN /\ task' = [task EXCEPT ![p] = [r EXCEPT !.pc = "gb_keygen"]]
            /\ UNCHANGED running
       ELSE /\ task' = [task EXCEPT ![p] = Ret(r, CONNECTION)]
            /\ running' = p
  /\ UNCHANGED Others
  /\ Collect(promises, sent)

\* The public key is known: checkExtensionPairingStatus is sent; or the key store
\* failed: CONNECTION.
GetBlockingStateKeypair(p) ==
  /\ Quiet
  /\ task[p].pc = "gb_keygen"
  /\ \/ /\ task' = [task EXCEPT ![p] = [task[p] EXCEPT !.pc = "gb_status", !.clear = @ + 1]]
        /\ UNCHANGED running
     \/ /\ task' = [task EXCEPT ![p] = Ret([task[p] EXCEPT !.status = "failed"], CONNECTION)]
        /\ running' = p
  /\ UNCHANGED Others
  /\ Collect(promises, sent)

\* checkExtensionPairingStatus settled: null, clearSession('DesktopNotPaired') and
\* PAIRING, or CONNECTION.
GetBlockingStateStatus(p) ==
  /\ Quiet
  /\ task[p].pc = "gb_status"
  /\ \E a \in Answers :
       LET r == [task[p] EXCEPT !.status = a] IN
       task' = [task EXCEPT ![p] =
         IF a = "failed" THEN Ret(r, CONNECTION)
         ELSE IF a = "yes" THEN Ret(r, OK)
         ELSE CallClearSession([r EXCEPT !.res = PAIRING], DESKTOP_NOT_PAIRED, "return")]
  /\ running' = p
  /\ UNCHANGED Others
  /\ Collect(promises, sent)

(***************************************************************************)
(* closeSession, pinIdentity, unpair                                       *)
(***************************************************************************)
\* nmCloseSession settled: acknowledged, or rejected with a companion error, a
\* timeout or the disconnection error.
CloseOutcomes == {OK, SESSION_NOT_FOUND, REQUEST_TIMEOUT, DISCONNECTED}

CloseSession(p) ==
  /\ running = p
  /\ task[p].pc = "cl_enter"
  /\ \E sessionId \in {session.id} \cup DOMAIN sent :
       task' = [task EXCEPT ![p] = [task[p] EXCEPT !.pc = "cl_wait", !.sentSid = sessionId]]
  /\ running' = 0
  /\ UNCHANGED Others
  /\ Collect(promises, sent)

\* The session is dropped only when the companion acknowledged the close.
CloseOnlyOnSuccess(o) == IF o = OK THEN NoSession ELSE session

\* finally { ...; this._session = undefined }: the session held after outcome o.
ClosedSession(o) == NoSession

\* nmCloseSession settled: the key of the session held is zero-filled, the session dropped.
CloseSessionFinally(p) ==
  /\ Quiet
  /\ task[p].pc = "cl_wait"
  /\ \E o \in CloseOutcomes :
       /\ session' = ClosedSession(o)
       /\ task' = [task EXCEPT ![p] =
            Ret([task[p] EXCEPT !.drops = @ + 1, !.zeroed = session.id], o)]
  /\ running' = p
  /\ UNCHANGED <<calls, ephemeral, handshakePromise, store, inMemoryKeypair, unlocking, keyRecord>>
  /\ Collect(promises, sent)

\* pinIdentity(id): the four keys are written in one storageSet.
PinIdentity(p) ==
  /\ running = p
  /\ task[p].pc = "pin_enter"
  /\ \E id \in Identities :
       /\ store' = Pinned(id)
       /\ task' = [task EXCEPT ![p] = [task[p] EXCEPT !.pc = "io_wait", !.arg = id]]
  /\ running' = 0
  /\ UNCHANGED <<calls, session, ephemeral, handshakePromise, inMemoryKeypair, unlocking, keyRecord>>
  /\ Collect(promises, sent)

Unpair(p) ==
  /\ running = p
  /\ task[p].pc = "up_enter"
  /\ store' = Unpaired
  /\ task' = [task EXCEPT ![p] = [task[p] EXCEPT !.pc = "io_wait", !.unpairs = @ + 1]]
  /\ running' = 0
  /\ UNCHANGED <<calls, session, ephemeral, handshakePromise, inMemoryKeypair, unlocking, keyRecord>>
  /\ Collect(promises, sent)

\* The storageSet callback.
StorageSetDone(p) ==
  /\ Quiet
  /\ task[p].pc = "io_wait"
  /\ task' = [task EXCEPT ![p] = Ret(task[p], OK)]
  /\ running' = p
  /\ UNCHANGED Others
  /\ Collect(promises, sent)

(***************************************************************************)
(* The user unlocks the client keypair with the master password            *)
(* (ensureClientKeypairUnlocked(masterPassword), outside the channel).     *)
(***************************************************************************)
UnlockStart ==
  /\ Quiet
  /\ ~inMemoryKeypair
  /\ ~unlocking
  /\ unlocking' = TRUE
  /\ UNCHANGED <<calls, session, ephemeral, handshakePromise, store, inMemoryKeypair, keyRecord, task, running>>
  /\ Collect(promises, sent)

\* unlockKeypair settled: the keypair is cached (and persisted), or the password was wrong.
UnlockEnd ==
  /\ Quiet
  /\ unlocking
  /\ unlocking' = FALSE
  /\ \/ inMemoryKeypair' = TRUE /\ keyRecord' = TRUE
     \/ keyRecord /\ UNCHANGED <<inMemoryKeypair, keyRecord>>
  /\ UNCHANGED <<calls, session, ephemeral, handshakePromise, store, task, running>>
  /\ Collect(promises, sent)

(***************************************************************************)
(* NativeMessagingHandler                                                  *)
(***************************************************************************)
\* createDisconnectionError(lastError)
CreateDisconnectionError(lastError) == OrElse(lastError, DISCONNECTED)

\* chrome.runtime.lastError when the port's onDisconnect fires ("" when unset).
LastErrors == {"", HOST_EXITED}

\* Responses of the companion: {success, error}.
Replies ==
  {[success |-> TRUE, error |-> ""], [success |-> FALSE, error |-> ""],
   [success |-> FALSE, error |-> SESSION_NOT_FOUND]}

\* A settlement of a call's promise: what settled it (by), the call whose
\* response or timer or handler did it (from), and the value or error text.
Settlement(by, from, msg) == [by |-> by, from |-> from, msg |-> msg]

\* resolve(...) or reject(...) of call c's promise.
Settle(rs, c, how) == [rs EXCEPT ![c].settle = Append(@, how)]

\* The promise of a new sendRequest() call.
NewRequest == [id |-> 0, settle |-> <<>>]

\* connect() opens a port whatever the connected flag says.
NeverConnected == FALSE

\* if (this.connected) in connect()
AlreadyConnected == nm.connected

\* The smallest id not pending is taken.
FirstFreeId(h) ==
  CHOOSE n \in 1..(h.requestId + 1) :
    /\ n \notin DOMAIN h.pendingRequests
    /\ \A k \in 1..(n - 1) : k \in DOMAIN h.pendingRequests

\* const id = ++this.requestId
NextId(h) == h.requestId + 1

\* _clearPendingRequests()
ClearPendingRequests(h) == [h EXCEPT !.pendingRequests = <<>>]

\* Only the flag is reset.
ResetFlagOnly(h) == [h EXCEPT !.connected = FALSE]

\* _reset()
Reset(h) == [h EXCEPT !.connected = FALSE, !.port = 0]

\* The promise executor of connect(): chrome.runtime.connectNative returns a port
\* (ok) or throws.
ConnectNative(ok) ==
  IF ok
  THEN /\ nm' = [nm EXCEPT !.port = ports.made + 1, !.connected = TRUE]
       /\ ports' = [ports EXCEPT !.made = @ + 1, !.open = @ \cup {ports.made + 1}]
  ELSE UNCHANGED <<nm, ports>>

\* The port is closed on this side: nothing is delivered from it any more.
PortClosed(p) ==
  /\ ports' = [ports EXCEPT !.open = @ \ {p}, !.dropped = @ \ {p}]
  /\ hostSeen' = {m \in hostSeen : m.port # p}

\* connect()
Connect ==
  /\ \E ok \in BOOLEAN :
       /\ ok => ports.made < MaxPorts
       /\ IF AlreadyConnected
          THEN /\ UNCHANGED <<nm, ports>>
               /\ last' = Ran("connect", "AlreadyConnected", {})
          ELSE /\ ConnectNative(ok)
               /\ last' = Ran("connect", IF ok THEN OK ELSE CONNECT_ERROR, {})
  /\ UNCHANGED <<timers, hostSeen, requests, deferred, notified>>
  /\ UNCHANGED <<vars, ksVars>>

\* disconnect()
Disconnect ==
  /\ nm' = ClearPendingRequests([nm EXCEPT !.port = 0, !.connected = FALSE])
  /\ IF nm.port # 0 THEN PortClosed(nm.port) ELSE UNCHANGED <<ports, hostSeen>>
  /\ last' = Ran("disconnect", "", {})
  /\ UNCHANGED <<timers, requests, deferred, notified>>
  /\ UNCHANGED <<vars, ksVars>>

\* sendRequest(command, params, timeout) run for call c, whose promise is rs[c];
\* dq is the queue of deferred calls without c.
SendRequestBody(c, rs, dq) ==
  IF ~nm.connected
  THEN \E ok \in BOOLEAN :
         /\ ok => ports.made < MaxPorts
         /\ ConnectNative(ok)
         /\ requests' = IF ok THEN rs
                        ELSE Settle(rs, c, Settlement("connect", c, CONNECT_ERROR))
         /\ deferred' = IF ok THEN Append(dq, c) ELSE dq
         /\ last' = Ran("sendRequest", IF ok THEN "" ELSE CONNECT_ERROR, {})
         /\ UNCHANGED <<timers, hostSeen>>
  ELSE LET id == NextId(nm)
           set == Extend(nm.pendingRequests, id, c) IN
       /\ deferred' = dq
       /\ last' = Ran("sendRequest", "", {})
       /\ UNCHANGED ports
       /\ IF nm.port \in ports.dropped
          THEN \* postMessage throws: _cleanupRequest(id), reject(error)
               /\ nm' = [nm EXCEPT !.requestId = id,
                                   !.pendingRequests = Restrict(set, DOMAIN set \ {id})]
               /\ timers' = timers \ {[call |-> c, id |-> id]}
               /\ requests' = Settle([rs EXCEPT ![c].id = id], c,
                                     Settlement("send", c, PORT_CLOSED))
               /\ UNCHANGED hostSeen
          ELSE /\ nm' = [nm EXCEPT !.requestId = id, !.pendingRequests = set]
               /\ timers' = timers \cup {[call |-> c, id |-> id]}
               /\ requests' = [rs EXCEPT ![c].id = id]
               /\ hostSeen' = hostSeen \cup {[port |-> nm.port, id |-> id, call |-> c]}

\* A caller invokes sendRequest().
SendRequest ==
  /\ Len(requests) < MaxRequests
  /\ SendRequestBody(Len(requests) + 1, Append(requests, NewRequest), deferred)
  /\ UNCHANGED notified
  /\ UNCHANGED <<vars, ksVars>>

\* The continuation of connect().then(...): sendRequest() runs again.
ResumeSendRequest ==
  /\ deferred # <<>>
  /\ SendRequestBody(Head(deferred), requests, Tail(deferred))
  /\ UNCHANGED notified
  /\ UNCHANGED <<vars, ksVars>>

\* The timer of request t fires: _handleRequestTimeout(id, command)
HandleRequestTimeout(t) ==
  /\ deferred = <<>>
  /\ t \in timers
  /\ timers' = timers \ {t}
  /\ IF t.id \in DOMAIN nm.pendingRequests
     THEN LET c == nm.pendingRequests[t.id] IN
          /\ nm' = [nm EXCEPT !.pendingRequests = Restrict(@, DOMAIN @ \ {t.id})]
          /\ requests' = Settle(requests, c, Settlement("timeout", t.call, REQUEST_TIMEOUT))
          /\ last' = Ran("timeout", REQUEST_TIMEOUT, {c})
     ELSE /\ UNCHANGED <<nm, requests>>
          /\ last' = Ran("timeout", "", {})
  /\ UNCHANGED <<ports, hostSeen, deferred, notified>>
  /\ UNCHANGED <<vars, ksVars>>

\* _handleResponse(message): the value or error the promise is settled with.
HandleResponse(reply) ==
  IF reply.success = FALSE \/ reply.error # "" THEN reply.error ELSE OK

\* The port delivers the companion's response to request m: _handleMessage(message).
\* (A message without a pending id is dropped, or forwarded as an event when it
\* carries one: neither touches the handler's state.)
HandleMessage(m, reply) ==
  /\ deferred = <<>>
  /\ m \in hostSeen
  /\ m.port = nm.port
  /\ IF m.id \in DOMAIN nm.pendingRequests
     THEN LET c == nm.pendingRequests[m.id] IN
          /\ nm' = [nm EXCEPT !.pendingRequests = Restrict(@, DOMAIN @ \ {m.id})]
          /\ timers' = timers \ {[call |-> c, id |-> m.id]}
          /\ requests' = Settle(requests, c,
                                Settlement("response", m.call, HandleResponse(reply)))
          /\ last' = Ran("message", HandleResponse(reply), {})
     ELSE /\ UNCHANGED <<nm, timers, requests>>
          /\ last' = Ran("message", "ignored", {})
  /\ UNCHANGED <<ports, hostSeen, deferred, notified>>
  /\ UNCHANGED <<vars, ksVars>>

\* The companion exits or closes the pipe: the port's onDisconnect will fire.
CompanionDrops ==
  /\ \E p \in ports.open \ ports.dropped :
       ports' = [ports EXCEPT !.dropped = @ \cup {p}]
  /\ last' = Ran("drop", "", {})
  /\ UNCHANGED <<nm, timers, hostSeen, requests, deferred, notified>>
  /\ UNCHANGED <<vars, ksVars>>

\* _rejectAllPendingRequests(error): every pending promise is rejected.
RejectAllPendingRequests(rs, h, error) ==
  [c \in DOMAIN rs |->
     IF \E i \in DOMAIN h.pendingRequests : h.pendingRequests[i] = c
     THEN [rs[c] EXCEPT !.settle =
             Append(@, Settlement("disconnect", c, CreateDisconnectionError(error)))]
     ELSE rs[c]]

\* _notifyDisconnection(error): one DISCONNECTED message to the extension.
NotifyDisconnection(n) == n + 1

\* The port's onDisconnect fires: _handleDisconnect()
HandleDisconnect ==
  /\ deferred = <<>>
  /\ nm.port \in ports.dropped
  /\ \E error \in LastErrors :
       /\ requests' = RejectAllPendingRequests(requests, nm, error)
       /\ last' = Ran("onDisconnect", CreateDisconnectionError(error),
                      {nm.pendingRequests[i] : i \in DOMAIN nm.pendingRequests})
  /\ nm' = Reset([nm EXCEPT !.pendingRequests = <<>>])
  /\ ports' = [ports EXCEPT !.open = @ \ {nm.port}, !.dropped = @ \ {nm.port},
                            !.handled = @ + 1]
  /\ hostSeen' = {m \in hostSeen : m.port # nm.port}
  /\ notified' = NotifyDisconnection(notified)
  /\ UNCHANGED <<timers, deferred>>
  /\ UNCHANGED <<vars, ksVars>>

Next ==
  \/ \E p \in Procs, o \in Ops : Call(p, o)
  \/ \E p \in Procs :
       \/ Done(p)
       \/ Return(p)
       \/ EnsureSession(p)
       \/ AwaitHandshake(p)
       \/ SettleHandshake(p)
       \/ EnsureSessionFinally(p)
       \/ PerformHandshake(p)
       \/ PerformHandshakeAfterBegin(p)
       \/ PerformHandshakeAfterFinish(p)
       \/ BeginHandshake(p)
       \/ BeginHandshakeResponse(p)
       \/ BeginHandshakeRejected(p)
       \/ BeginHandshakeVerify(p)
       \/ BeginHandshakeStore(p)
       \/ FinishHandshake(p)
       \/ FinishHandshakeResponse(p)
       \/ ClearSession(p)
       \/ ClearClientKeypair(p)
       \/ PairingRequired(p)
       \/ SecureRequest(p)
       \/ SecureRequestFirst(p)
       \/ SecureRequestRetry(p)
       \/ SecureRequestSecond(p)
       \/ SecureRequestCatch(p)
       \/ HandleRequest(p)
       \/ HandleRequestSecure(p)
       \/ HandleRequestPlain(p)
       \/ GetBlockingState(p)
       \/ GetBlockingStatePinned(p)
       \/ GetBlockingStateLocal(p)
       \/ GetBlockingStateAvailability(p)
       \/ GetBlockingStateKeypair(p)
       \/ GetBlockingStateStatus(p)
       \/ CloseSession(p)
       \/ CloseSessionFinally(p)
       \/ PinIdentity(p)
       \/ Unpair(p)
       \/ StorageSetDone(p)
  \/ UnlockStart
  \/ UnlockEnd

Spec == Init /\ [][Next]_vars

(***************************************************************************)
(* Callers of secureRequest() on an established session: the channel after  *)
(* a successful ensureSession(), used by secureRequest() only.              *)
(***************************************************************************)
RetryInit ==
  /\ session = NewSession(1)
  /\ ephemeral = FALSE
  /\ handshakePromise = 0
  /\ promises = <<>>
  /\ store = PairedStore
  /\ inMemoryKeypair = TRUE
  /\ unlocking = FALSE
  /\ keyRecord = TRUE
  /\ sent = <<NoneSent>>
  /\ task = [p \in Procs |-> Idle]
  /\ running = 0
  /\ calls = 0
  /\ NmInit
  /\ KsInit

RetryNext ==
  \/ \E p \in Procs : Call(p, "secure")
  \/ \E p \in Procs :
       \/ Done(p)
       \/ Return(p)
       \/ EnsureSession(p)
       \/ AwaitHandshake(p)
       \/ SettleHandshake(p)
       \/ EnsureSessionFinally(p)
       \/ PerformHandshake(p)
       \/ PerformHandshakeAfterBegin(p)
       \/ PerformHandshakeAfterFinish(p)
       \/ BeginHandshake(p)
       \/ BeginHandshakeResponse(p)
       \/ BeginHandshakeRejected(p)
       \/ BeginHandshakeVerify(p)
       \/ BeginHandshakeStore(p)
       \/ FinishHandshake(p)
       \/ FinishHandshakeResponse(p)
       \/ ClearSession(p)
       \/ ClearClientKeypair(p)
       \/ PairingRequired(p)
       \/ SecureRequest(p)
       \/ SecureRequestFirst(p)
       \/ SecureRequestRetry(p)
       \/ SecureRequestSecond(p)
       \/ SecureRequestCatch(p)

RetrySpec == RetryInit /\ [][RetryNext]_vars

\* The transport alone: the channel is idle and stays as constructed.
TransportInit ==
  /\ NmInit
  /\ KsInit
  /\ session = NoSession
  /\ ephemeral = FALSE
  /\ handshakePromise = 0
  /\ promises = <<>>
  /\ store = EmptyStore
  /\ inMemoryKeypair = FALSE
  /\ unlocking = FALSE
  /\ keyRecord = FALSE
  /\ sent = <<>>
  /\ task = [p \in Procs |-> Idle]
  /\ running = 0
  /\ calls = 0

TransportNext ==
  \/ SendRequest
  \/ ResumeSendRequest
  \/ Connect
  \/ Disconnect
  \/ CompanionDrops
  \/ HandleDisconnect
  \/ \E t \in timers : HandleRequestTimeout(t)
  \/ \E m \in hostSeen, reply \in Replies : HandleMessage(m, reply)

TransportSpec == TransportInit /\ [][TransportNext]_<<vars, nmVars>>

(***************************************************************************)
(* clientKeyStore                                                          *)
(***************************************************************************)
\* `return kp` / `throw new Error(e)` out of the call.
Returned(r, kp) == [r EXCEPT !.pc = "done", !.result = kp]
Thrown(r, e) == [r EXCEPT !.pc = "done", !.error = e]

\* A caller is free to make call number kcalls + 1 (callers are interchangeable).
CanCall(c) ==
  /\ kcalls < MaxKeyCalls
  /\ kcall[c].pc \in {"idle", "done"}
  /\ \A d \in Procs : d < c => kcall[d].pc \notin {"idle", "done"}

\* The locals of a new call, with what it found on entry.
NewCall(op, masterPassword) ==
  [KIdle EXCEPT !.op = op, !.masterPassword = masterPassword,
                !.cached = keyStore.inMemoryKeypair # NoKeypair,
                !.outstanding = keyStore.unlocking,
                !.persisted = GetKeyRecord(clientKeys)]

\* ensureClientKeypairGeneratedForPairing(), up to `await openDb()`.
EnsureGeneratedForPairing(c) ==
  /\ CanCall(c)
  /\ kcalls' = kcalls + 1
  /\ LET r == NewCall("generate", "") IN
     IF keyStore.inMemoryKeypair # NoKeypair
     THEN /\ kcall' = [kcall EXCEPT ![c] = Returned(r, keyStore.inMemoryKeypair)]
          /\ issued' = issued \cup {keyStore.inMemoryKeypair.publicKey}
     ELSE IF keyStore.pendingKeypair # NoKeypair
     THEN /\ kcall' = [kcall EXCEPT ![c] = Returned(r, keyStore.pendingKeypair)]
          /\ issued' = issued \cup {keyStore.pendingKeypair.publicKey}
     ELSE /\ kcall' = [kcall EXCEPT ![c] = [r EXCEPT !.pc = "open"]]
          /\ UNCHANGED issued
  /\ UNCHANGED <<keyStore, clientKeys, keysMade>>
  /\ UNCHANGED <<vars, nmVars>>

\* openDb() resolved: getKeyRecord(db) is awaited.
OpenDb(c) ==
  /\ kcall[c].pc = "open"
  /\ kcall' = [kcall EXCEPT ![c].pc = "get"]
  /\ UNCHANGED <<keyStore, clientKeys, keysMade, kcalls, issued>>
  /\ UNCHANGED <<vars, nmVars>>

\* ensureClientKeypairGeneratedForPairing() after `await getKeyRecord(db)`.
GeneratedForPairing(c) ==
  /\ kcall[c].op = "generate"
  /\ kcall[c].pc = "get"
  /\ LET record == GetKeyRecord(clientKeys)
         stored == [publicKey |-> Base64Decode(record.publicKeyB64), privateKey |-> Null]
         fresh == Keypair(keysMade + 1)
     IN IF record.publicKeyB64 # Null
        THEN /\ kcall' = [kcall EXCEPT ![c] = Returned([@ EXCEPT !.record = record], stored)]
             /\ issued' = issued \cup {stored.publicKey}
             /\ UNCHANGED <<keyStore, keysMade>>
        ELSE /\ keysMade' = keysMade + 1
             /\ keyStore' = [keyStore EXCEPT !.pendingKeypair = fresh]
             /\ kcall' = [kcall EXCEPT ![c] = Returned(@, fresh)]
             /\ issued' = issued \cup {fresh.publicKey}
  /\ UNCHANGED <<clientKeys, kcalls>>
  /\ UNCHANGED <<vars, nmVars>>

\* finally { unlocking = false }
GuardReleased == FALSE

\* The guard is not consulted.
NoUnlockOutstanding == FALSE

\* if (unlocking)
UnlockOutstanding == keyStore.unlocking

\* An empty password is accepted.
NeverMissing(masterPassword) == FALSE

\* if (!masterPassword)
Missing(masterPassword) == masterPassword = ""

\* ensureClientKeypairUnlocked(masterPassword), up to `await openDb()` in unlockKeypair.
EnsureUnlocked(c, masterPassword) ==
  /\ CanCall(c)
  /\ kcalls' = kcalls + 1
  /\ LET r == NewCall("unlock", masterPassword) IN
     IF keyStore.inMemoryKeypair # NoKeypair
     THEN /\ kcall' = [kcall EXCEPT ![c] = Returned(r, keyStore.inMemoryKeypair)]
          /\ UNCHANGED keyStore
     ELSE IF UnlockOutstanding
     THEN /\ kcall' = [kcall EXCEPT ![c] = Thrown(r, UNLOCK_IN_PROGRESS)]
          /\ UNCHANGED keyStore
     ELSE IF Missing(masterPassword)
     THEN /\ kcall' = [kcall EXCEPT ![c] = Thrown(r, MASTER_PASSWORD_REQUIRED)]
          /\ UNCHANGED keyStore
     ELSE /\ kcall' = [kcall EXCEPT ![c] = [r EXCEPT !.pc = "open"]]
          /\ keyStore' = [keyStore EXCEPT !.unlocking = TRUE]
  /\ UNCHANGED <<clientKeys, keysMade, issued>>
  /\ UNCHANGED <<vars, nmVars>>

\* unlockKeypair after `await getKeyRecord(db)`: the keypair to persist is chosen and
\* encryptPrivateKey awaited, or decryptPrivateKey is awaited.
UnlockKeypair(c) ==
  /\ kcall[c].op = "unlock"
  /\ kcall[c].pc = "get"
  /\ LET record == GetKeyRecord(clientKeys) IN
     IF record = NoRecord
     THEN IF keyStore.pendingKeypair # NoKeypair
          THEN /\ kcall' = [kcall EXCEPT ![c] = [@ EXCEPT !.pc = "encrypt",
                                                         !.keypair = keyStore.pendingKeypair]]
               /\ UNCHANGED keysMade
          ELSE /\ kcall' = [kcall EXCEPT ![c] = [@ EXCEPT !.pc = "encrypt",
                                                         !.keypair = Keypair(keysMade + 1)]]
               /\ keysMade' = keysMade + 1
     ELSE /\ kcall' = [kcall EXCEPT ![c] = [@ EXCEPT !.pc = "decrypt", !.record = record]]
          /\ UNCHANGED keysMade
  /\ UNCHANGED <<keyStore, clientKeys, kcalls, issued>>
  /\ UNCHANGED <<vars, nmVars>>

\* encryptPrivateKey resolved: newRecord is built and putKeyRecord awaited.
UnlockKeypairEncrypted(c) ==
  /\ kcall[c].pc = "encrypt"
  /\ \E rnd \in Randoms :
       LET r == kcall[c]
           enc == EncryptPrivateKey(r.keypair.privateKey, r.masterPassword, rnd)
       IN kcall' = [kcall EXCEPT ![c] =
            [r EXCEPT !.pc = "put",
                      !.newRecord = NewRecord(r.keypair.publicKey, enc, kcalls)]]
  /\ UNCHANGED <<keyStore, clientKeys, keysMade, kcalls, issued>>
  /\ UNCHANGED <<vars, nmVars>>

\* putKeyRecord resolved: the record is stored and the keypair cached.
UnlockKeypairStored(c) ==
  /\ kcall[c].pc = "put"
  /\ clientKeys' = PutKeyRecord(clientKeys, kcall[c].newRecord)
  /\ keyStore' = [inMemoryKeypair |-> kcall[c].keypair, pendingKeypair |-> NoKeypair,
                  unlocking |-> GuardReleased]
  /\ kcall' = [kcall EXCEPT ![c] = Returned(@, @.keypair)]
  /\ UNCHANGED <<keysMade, kcalls, issued>>
  /\ UNCHANGED <<vars, nmVars>>

\* decryptPrivateKey settled: the keypair is cached, or the password was wrong.
UnlockKeypairDecrypted(c) ==
  /\ kcall[c].pc = "decrypt"
  /\ LET r == kcall[c]
         privateKey == DecryptPrivateKey(r.record, r.masterPassword)
         keypair == [publicKey |-> Base64Decode(r.record.publicKeyB64),
                     privateKey |-> privateKey]
     IN IF privateKey # Null
        THEN /\ keyStore' = [keyStore EXCEPT !.inMemoryKeypair = keypair,
                                             !.unlocking = GuardReleased]
             /\ kcall' = [kcall EXCEPT ![c] = Returned(r, keypair)]
        ELSE /\ keyStore' = [keyStore EXCEPT !.unlocking = GuardReleased]
             /\ kcall' = [kcall EXCEPT ![c] = Thrown(r, MASTER_PASSWORD_INVALID)]
  /\ UNCHANGED <<clientKeys, keysMade, kcalls, issued>>
  /\ UNCHANGED <<vars, nmVars>>

\* An IndexedDB request fails (request.onerror): the call rejects with request.error.
DbFails(c) ==
  /\ kcall[c].pc \in {"open", "get", "put"}
  /\ kcall' = [kcall EXCEPT ![c] = Thrown(@, DB_ERROR)]
  /\ keyStore' = IF kcall[c].op = "unlock"
                 THEN [keyStore EXCEPT !.unlocking = GuardReleased]
                 ELSE keyStore
  /\ UNCHANGED <<clientKeys, keysMade, kcalls, issued>>
  /\ UNCHANGED <<vars, nmVars>>

\* clearClientKeypair(): the persisted record and the in-memory cache are deleted;
\* the pending keypair is dropped with them or kept.
ClearIdentity ==
  /\ kcalls < MaxKeyCalls
  /\ kcalls' = kcalls + 1
  /\ clientKeys' = {r \in clientKeys : r.id # KEY_ID}
  /\ \E pending \in {NoKeypair, keyStore.pendingKeypair} :
       keyStore' = [keyStore EXCEPT !.inMemoryKeypair = NoKeypair,
                                    !.pendingKeypair = pending]
  /\ issued' = {}
  /\ UNCHANGED <<keysMade, kcall>>
  /\ UNCHANGED <<vars, nmVars>>

\* The record an earlier run of the extension left in IndexedDB.
EarlierRecord ==
  NewRecord(PublicKey(0), EncryptPrivateKey(PrivateKey(0), "hunter2", 1), 0)

KeyStoreInit ==
  /\ keyStore = [inMemoryKeypair |-> NoKeypair, pendingKeypair |-> NoKeypair,
                 unlocking |-> FALSE]
  /\ clientKeys \in {{}, {EarlierRecord}}
  /\ keysMade = 0
  /\ kcall = [c \in Procs |-> KIdle]
  /\ kcalls = 0
  /\ issued = {}
  /\ NmInit
  /\ session = NoSession
  /\ ephemeral = FALSE
  /\ handshakePromise = 0
  /\ promises = <<>>
  /\ store = EmptyStore
  /\ inMemoryKeypair = FALSE
  /\ unlocking = FALSE
  /\ keyRecord = FALSE
  /\ sent = <<>>
  /\ task = [p \in Procs |-> Idle]
  /\ running = 0
  /\ calls = 0

KeyStoreNext ==
  \/ ClearIdentity
  \/ \E c \in Procs :
       \/ EnsureGeneratedForPairing(c)
       \/ \E masterPassword \in Passwords : EnsureUnlocked(c, masterPassword)
       \/ OpenDb(c)
       \/ GeneratedForPairing(c)
       \/ UnlockKeypair(c)
       \/ UnlockKeypairEncrypted(c)
       \/ UnlockKeypairStored(c)
       \/ UnlockKeypairDecrypted(c)
       \/ DbFails(c)

KeyStoreSpec == KeyStoreInit /\ [][KeyStoreNext]_<<vars, nmVars, ksVars>>

(***************************************************************************)
(* Properties.                                                             *)
(***************************************************************************)
\* Caller p performs a handshake started by its ensureSession() that has not settled.
Handshaking(p) == task[p].mine # 0 /\ promises[task[p].mine] = "pending"

\* Caller p's ensureSession() has just returned or thrown task[p].res.
EnsureReturned(p) ==
  \/ task[p].pc \in {"sr_afterEnsure", "rq_afterEnsure"}
  \/ task[p].op = "ensure" /\ task[p].pc = "done"

\* C1: at most one handshake started through ensureSession() is unsettled at any
\* time; a caller of ensureSession() never starts a second one (and so never sends
\* a second nmBeginHandshake) while an earlier one is still in its begin or finish.
C1_SingleHandshakeInFlight ==
  /\ \A p, q \in Procs : Handshaking(p) /\ Handshaking(q) => p = q
  /\ \A p \in Procs : Handshaking(p) => handshakePromise = task[p].mine

\* A handshake is in flight and another caller of ensureSession() is waiting for it.
C1_Witness ==
  \E p, q \in Procs :
    /\ p # q
    /\ Handshaking(p)
    /\ task[p].pc \in {"bh_wait", "fh_wait"}
    /\ task[q].pc = "es_wait"
    /\ task[q].wait = task[p].mine

\* C2: an ensureSession() call entered while another caller's handshake is unsettled
\* returns only after that handshake has settled, and with its outcome.
C2_WaitsForInFlightHandshake ==
  \A p \in Procs :
    EnsureReturned(p) /\ task[p].during # 0 =>
      /\ promises[task[p].during] # "pending"
      /\ task[p].res = promises[task[p].during]

\* C3: when ensureSession() has failed, no session is active.
C3_NoSessionAfterFailedEnsure ==
  \A p \in Procs :
    EnsureReturned(p) /\ task[p].res # OK => ~HasActiveSession

\* Caller p's call is secureRequest(), directly or through handleRequest, and has ended.
SecureDone(p) == task[p].op \in {"secure", "request"} /\ task[p].pc = "done"

\* The first-attempt failures the claim names: decrypt failed, no session,
\* session not found, secure request failed.
FirstFailureRetried(e) ==
  \/ e \in {DECRYPT_FAILED, NO_SESSION, SESSION_NOT_FOUND, SECURE_REQUEST_FAILED}
  \/ Includes(e, SESSION_NOT_FOUND)

\* C4 (as amended): one secureRequest() call sends at most two nmSecureRequest
\* messages and runs ensureSession() at most once; after a first attempt that failed
\* with decrypt failed, no session, session not found or secure request failed the
\* session was dropped and ensureSession() ran exactly once, and the request was
\* attempted once more exactly if that ensureSession() succeeded; never a third time.
C4_RetryOnceAfterRehandshake ==
  \A p \in Procs :
    LET t == task[p] IN
    /\ t.sends <= 2
    /\ t.attempts <= 2
    /\ t.ensures <= 1
    /\ SecureDone(p) /\ FirstFailureRetried(t.e1) =>
         /\ t.ensures = 1
         /\ t.drops >= 1
         /\ t.ensureRes # "none"
         /\ t.attempts = (IF t.ensureRes = OK THEN 2 ELSE 1)
         /\ t.sends <= t.attempts

\* A second attempt was sent after the re-handshake and failed; the call ended with it.
C4_Witness ==
  \E p \in Procs :
    /\ SecureDone(p)
    /\ FirstFailureRetried(task[p].e1)
    /\ task[p].sends = 2
    /\ task[p].retryErr \notin {"none", OK}
    /\ task[p].res = task[p].retryErr

\* C4 (as stated): after such a first failure ensureSession() ran exactly once and
\* the request was attempted exactly once more.
C4_AlwaysSecondAttempt ==
  \A p \in Procs :
    SecureDone(p) /\ FirstFailureRetried(task[p].e1) =>
      task[p].ensures = 1 /\ task[p].attempts = 2

\* C5: when the retry inside secureRequest() failed, an identity-level failure has
\* cleared the pairing; after any other failure the call has not cleared the pairing
\* and ends with that error.
C5_RetryFailureClassified ==
  \A p \in Procs :
    LET t == task[p] IN
    SecureDone(p) /\ t.retryErr # "none" =>
      IF IdentityLevel(t.retryErr)
      THEN t.unpairs >= 1
      ELSE t.unpairs = 0 /\ t.keyclears = 0 /\ t.res = t.retryErr

\* The signature check failed in a direct beginHandshake() or in the handshake of an
\* ensureSession() that is not the re-handshake of a secureRequest() retry.
InitialSignatureFailure(p) ==
  /\ task[p].sigFailed
  /\ \/ task[p].op \in {"begin", "ensure"}
     \/ task[p].op = "request" /\ task[p].ensures = 0

\* C6: with an identity pinned, a handshake signature that fails verification makes
\* beginHandshake() (called directly or by the initial ensureSession()) fail with
\* signature invalid; no session is stored, the pinned identity is as it was and no
\* pairing-required notification is sent.
C6_SignatureInvalidKeepsPairing ==
  \A p \in Procs :
    LET t == task[p] IN
    InitialSignatureFailure(p) =>
      /\ t.stored = 0
      /\ t.unpairs = 0
      /\ t.keyclears = 0
      /\ t.notes = <<>>
      /\ IsPaired
      /\ GetPinnedIdentity = t.pinnedId
      /\ store.paired = "true"
      /\ t.pc = "done" => t.res = SIGNATURE_INVALID

\* ensureSession() has failed on the signature check of its handshake.
C6_Witness ==
  \E p \in Procs :
    /\ task[p].op = "ensure"
    /\ task[p].pc = "done"
    /\ task[p].sigFailed
    /\ task[p].handshakes = 1

\* Caller p's beginHandshake(), called directly or by the handshake of an
\* ensureSession() call, has just returned task[p].res.
BeginReturned(p) ==
  \/ task[p].op = "ensure" /\ task[p].pc = "ph_afterBegin"
  \/ task[p].op = "begin" /\ task[p].pc = "done"

\* What the claim says of a beginHandshake() that found no pinned identity.
NotPairedOutcome(t) ==
  /\ t.res = NOT_PAIRED
  /\ ~t.verified
  /\ t.stored = 0
  /\ t.unpairs = 1
  /\ t.keyclears = 1
  /\ t.notes = <<NOT_PAIRED>>

\* C7 (as amended): when the companion has answered nmBeginHandshake and no complete
\* pinned identity is found, beginHandshake() returns not paired without verifying a
\* signature or storing a session, clears the identity and pairing state and sends
\* exactly one pairing-required notification, with reason not paired.
C7_NotPairedAfterAnswer ==
  \A p \in Procs :
    BeginReturned(p) /\ task[p].pinnedRead = "absent" => NotPairedOutcome(task[p])

\* A direct beginHandshake() without a pinned identity was answered and has returned.
C7_Witness ==
  \E p \in Procs :
    /\ task[p].op = "begin"
    /\ task[p].pc = "done"
    /\ ~task[p].pairedAtCall
    /\ task[p].answered
    /\ task[p].pinnedRead = "absent"

\* C7 (as stated): beginHandshake() called while no complete identity is pinned
\* returns not paired, clears the pairing state and notifies once.
C7_NotPairedWheneverUnpaired ==
  \A p \in Procs :
    task[p].op = "begin" /\ task[p].pc = "done" /\ ~task[p].pairedAtCall
      => NotPairedOutcome(task[p])

\* C8: ensureSession() or secureRequest() that failed with a user-secret error
\* (secret required or secret invalid) has not cleared the pinned identity or the
\* persisted client identity and has sent no pairing-required notification.
C8_SecretErrorsKeepPairing ==
  \A p \in Procs :
    LET t == task[p] IN
    /\ t.pc = "done"
    /\ t.op \in {"ensure", "secure", "request"}
    /\ t.res \in {MASTER_PASSWORD_REQUIRED, MASTER_PASSWORD_INVALID}
    => t.unpairs = 0 /\ t.keyclears = 0 /\ t.notes = <<>>

\* The finishHandshake failures the claim excepts: a user-secret requirement and a
\* client-signature problem (the companion rejecting the client's signature).
SecretRequirement(e) == Includes(e, MASTER_PASSWORD_REQUIRED)
ClientSignatureProblem(e) == Includes(e, SIGNATURE_INVALID)

\* C9: when finishHandshake failed inside ensureSession() with an error that is
\* neither a user-secret requirement nor a client-signature problem, the session and the
\* pairing were cleared, one pairing-required notification carries that error as its
\* reason and ensureSession() fails with that error.
C9_FinishFailureClears ==
  \A p \in Procs :
    LET t == task[p]
        reason == OrElse(t.finErr, HANDSHAKE_FINISH_FAILED) IN
    /\ EnsureReturned(p)
    /\ t.finErr # "none"
    /\ ~SecretRequirement(t.finErr)
    /\ ~ClientSignatureProblem(t.finErr)
    => /\ t.drops >= 1
       /\ t.unpairs = 1
       /\ t.keyclears = 1
       /\ t.notes = <<reason>>
       /\ t.res = reason

\* ensureSession() has failed because nmFinishHandshake timed out.
C9_Witness ==
  \E p \in Procs :
    /\ EnsureReturned(p)
    /\ task[p].finErr = REQUEST_TIMEOUT
    /\ task[p].res = REQUEST_TIMEOUT

C11_NoEphemeralAfterEnsure ==
  \A p \in Procs :
    /\ task[p].op = "ensure"
    /\ task[p].pc = "done"
    /\ calls = 1
    /\ handshakePromise = 0
    => ~ephemeral

\* Caller p's closeSession() has just settled.
CloseSettled(p) == task[p].op = "close" /\ task[p].pc = "done"

\* C12: when closeSession() has settled, whatever the outcome of nmCloseSession, the
\* session that was held has been dropped (its key zero-filled first) by this call
\* and no session is held.
C12_NoSessionAfterClose ==
  \A p \in Procs :
    CloseSettled(p) =>
      /\ ~HasActiveSession
      /\ task[p].drops = 1

\* closeSession() has settled with a failure and had a session to drop.
C12_Witness ==
  \E p \in Procs :
    /\ CloseSettled(p)
    /\ task[p].res \in {REQUEST_TIMEOUT, DISCONNECTED, SESSION_NOT_FOUND}
    /\ task[p].zeroed # 0

\* Caller p's clearSession(reason) has just completed.
ClearSessionReturned(p) ==
  \/ task[p].pc = "return"
  \/ task[p].pc = "ph_settle" /\ task[p].notes # <<>>

\* What one clearSession(reason) call did itself: one unpair(), one
\* clearClientKeypair(), one pairing-required notification carrying the reason.
ClearSessionEffects(t) ==
  /\ t.notes # <<>>
  /\ t.notes[Len(t.notes)] = t.reason
  /\ Len(t.notes) = t.unpairs
  /\ Len(t.notes) = t.keyclears

\* C13 (as stated): when clearSession(reason) has completed no session and no
\* ephemeral keypair are held, no identity is pinned, the persisted client identity
\* is erased and exactly one pairing-required notification with the reason was sent.
C13_ClearedAfterClearSession ==
  \A p \in Procs :
    ClearSessionReturned(p) =>
      /\ ~HasActiveSession
      /\ ~ephemeral
      /\ ~IsPaired
      /\ ~keyRecord
      /\ ~inMemoryKeypair
      /\ ClearSessionEffects(task[p])

\* All three values of an identity are present.
Complete(id) ==
  id.fingerprint # "" /\ id.ed25519PublicKey # "" /\ id.x25519PublicKey # ""

\* The step in which caller p's pinIdentity(id) writes to storage.
PinStep(p) == task[p].pc = "pin_enter" /\ task'[p].pc = "io_wait"

\* The step in which caller p's unpair() writes to storage.
UnpairStep(p) == task[p].pc = "up_enter" /\ task'[p].pc = "io_wait"

\* The step in which caller p's clearSession() issues its unpair().
ClearStep(p) == task[p].pc = "cs_enter" /\ task'[p].pc = "cs_unpair"

\* C14: the pinned identity is all-or-nothing.  Storage changes only in a
\* pinIdentity, unpair or clearSession step; after pinIdentity(id) a lookup returns
\* id if its three values are present and nothing otherwise, after unpair and
\* clearSession it returns nothing; isPaired() is true exactly when the lookup
\* returns something, never for a record with one of the three fields missing.
C14_PinnedAllOrNothing ==
  [][/\ \A p \in Procs :
          PinStep(p) =>
            GetPinnedIdentity' = IF Complete(task'[p].arg) THEN task'[p].arg ELSE NoIdentity
     /\ \A p \in Procs : UnpairStep(p) \/ ClearStep(p) => GetPinnedIdentity' = NoIdentity
     /\ store' # store => \E p \in Procs : PinStep(p) \/ UnpairStep(p) \/ ClearStep(p)
     /\ IsPaired' <=> GetPinnedIdentity' # NoIdentity
     /\ ~Complete(store') => ~IsPaired' /\ GetPinnedIdentity' = NoIdentity]_vars

\* pinIdentity(id) with an identity whose exchange key is missing has replaced a
\* complete pinned identity: the record is partial and not reported as paired.
C14_Witness ==
  \E p \in Procs :
    /\ task[p].op = "pin"
    /\ task[p].pc = "done"
    /\ task[p].pairedAtCall
    /\ ~Complete(task[p].arg)
    /\ store = Pinned(task[p].arg)
    /\ store.fingerprint # ""
    /\ ~IsPaired

\* C15: unpair() leaves all four pinned fields (fingerprint, signing key, exchange
\* key, paired flag) absent from storage, and a lookup returns nothing.
C15_UnpairRemovesAllFields ==
  [][\A p \in Procs :
       UnpairStep(p) => store' = EmptyStore /\ GetPinnedIdentity' = NoIdentity]_vars

\* sendRequest() call c was dispatched: it was given a request id.
Dispatched(c) == requests[c].id # 0

\* Call c has an entry in the pending map.
Pending(c) == \E i \in DOMAIN nm.pendingRequests : nm.pendingRequests[i] = c

\* C16: no dispatched request is left unsettled forever.  A response, a timer and a
\* disconnection settle a request only through its entry in the pending map, so a
\* request without an entry that has not been settled never will be: every
\* dispatched request that is no longer pending has been settled.
C16_NoRequestLeftUnsettled ==
  \A c \in DOMAIN requests :
    Dispatched(c) /\ ~Pending(c) => requests[c].settle # <<>>

\* C17: when the transport has handled a disconnection event the pending map is
\* empty, the connection state is reset (not connected, no port), every request that
\* was pending was rejected, once, with the same disconnection error; and one
\* 'disconnected' notification was sent per event handled.
C17_DisconnectionHandled ==
  /\ notified = ports.handled
  /\ last.op = "onDisconnect" =>
       /\ DOMAIN nm.pendingRequests = {}
       /\ ~nm.connected
       /\ nm.port = 0
       /\ ports.open = {}
       /\ last.msg \in {DISCONNECTED, HOST_EXITED}
       /\ \A c \in last.rejected :
            requests[c].settle = <<Settlement("disconnect", c, last.msg)>>

\* A disconnection event was handled while two requests were pending.
C17_Witness ==
  /\ last.op = "onDisconnect"
  /\ Cardinality(last.rejected) = 2
  /\ notified = 1

\* C18: each dispatched request is settled exactly once, at the moment its pending
\* entry is removed: it is pending and unsettled, or not pending and settled once.
C18_SettledExactlyOnce ==
  \A c \in DOMAIN requests :
    Dispatched(c) =>
      IF Pending(c) THEN requests[c].settle = <<>> ELSE Len(requests[c].settle) = 1

\* C19: correlation ids are never reused, also across disconnect and reconnect, and
\* a promise is settled only by the response, the timer or the disconnection of its
\* own request: never by a late response or a stale timer of another one.
C19_IdsNeverReused ==
  /\ \A c, d \in DOMAIN requests :
       c # d /\ Dispatched(c) /\ Dispatched(d) => requests[c].id # requests[d].id
  /\ \A c \in DOMAIN requests : requests[c].id <= nm.requestId
  /\ \A c \in DOMAIN requests :
       \A k \in 1..Len(requests[c].settle) : requests[c].settle[k].from = c
  /\ \A i \in DOMAIN nm.pendingRequests : requests[nm.pendingRequests[i]].id = i

\* After a reconnect, the stale timer of a request of the old connection has fired
\* while a request of the new connection was pending, and rejected nothing.
C19_Witness ==
  /\ last = Ran("timeout", "", {})
  /\ ports.made = 2
  /\ \E c \in DOMAIN requests : Pending(c)

\* C20: connect() while connected changes nothing; at most one native port is open
\* at any time and it is the handler's port; when opening the port fails the
\* transport is left not connected, with no port and no pending request.
C20_ConnectIdempotent ==
  [][/\ Connect /\ nm.connected =>
          UNCHANGED <<nm, timers, ports, hostSeen, requests, deferred, notified>>
     /\ Cardinality(ports'.open) <= 1
     /\ ports'.open \subseteq {nm'.port}
     /\ nm'.connected <=> nm'.port # 0
     /\ last'.msg = CONNECT_ERROR =>
          /\ ~nm'.connected
          /\ nm'.port = 0
          /\ ports'.open = {}
          /\ DOMAIN nm'.pendingRequests = {}]_<<vars, nmVars>>

\* connect() was called while connected, with a request pending.
C20_Witness ==
  /\ last = Ran("connect", "AlreadyConnected", {})
  /\ nm.connected
  /\ DOMAIN nm.pendingRequests # {}

\* C21: the in-flight slot never holds a settled handshake when a caller can observe
\* it: a settled promise is in the slot only while its owner's finally is about to
\* empty it.  So a caller of ensureSession() without an active session joins only a
\* handshake that is unsettled, and otherwise starts its own.
C21_SlotEmptiedOnSettle ==
  /\ handshakePromise # 0 /\ promises[handshakePromise] # "pending" =>
       \E p \in Procs :
         /\ running = p
         /\ task[p].pc = "es_finally"
         /\ task[p].mine = handshakePromise
  /\ \A p \in Procs :
       /\ task[p].pc = "es_wait" => task[p].wait # 0 /\ task[p].wait = task[p].during
       /\ task[p].pc = "ph_isPaired" => Handshaking(p) /\ handshakePromise = task[p].mine

\* A caller whose first handshake has settled has started a second one.
C21_Witness ==
  \E p \in Procs :
    /\ task[p].handshakes = 2
    /\ task[p].pc = "ph_isPaired"
    /\ Handshaking(p)

\* C22: as long as the identity is not cleared, every call of
\* ensureClientKeypairGeneratedForPairing() returns the same client public key.
C22_SamePublicKey == Cardinality(issued) <= 1

\* Caller c's unlock is outstanding: it awaits the store or crypto.subtle.
Unlocking(c) ==
  kcall[c].op = "unlock" /\ kcall[c].pc \in {"open", "get", "encrypt", "put", "decrypt"}

\* C23: at most one unlock is outstanding, and the guard is set exactly while one is
\* (it is released when the unlock settles, with a keypair or with an error); an
\* ensureClientKeypairUnlocked(masterPassword) call made while an unlock is outstanding
\* and the keypair is not cached throws UnlockInProgress and changes neither the
\* store nor the caches nor the guard.
C23_SingleUnlock ==
  /\ [](/\ \A c, d \in Procs : Unlocking(c) /\ Unlocking(d) => c = d
        /\ keyStore.unlocking <=> \E c \in Procs : Unlocking(c))
  /\ [][\A c \in Procs, masterPassword \in Passwords \ {""} :
          /\ EnsureUnlocked(c, masterPassword)
          /\ keyStore.unlocking
          /\ keyStore.inMemoryKeypair = NoKeypair
          => /\ kcall'[c].pc = "done"
             /\ kcall'[c].error = UNLOCK_IN_PROGRESS
             /\ kcall'[c].result = NoKeypair
             /\ UNCHANGED <<keyStore, clientKeys, keysMade>>]_<<vars, nmVars, ksVars>>

\* An unlock was refused while another was outstanding, and that one has since
\* settled with an error: the guard is released.
C23_Witness ==
  \E c, d \in Procs :
    /\ kcall[c].pc = "done"
    /\ kcall[c].masterPassword # ""
    /\ kcall[c].error = UNLOCK_IN_PROGRESS
    /\ kcall[d].op = "unlock"
    /\ kcall[d].pc = "done"
    /\ kcall[d].error = MASTER_PASSWORD_INVALID
    /\ ~keyStore.unlocking

\* The password the private key of a record was encrypted under.
PasswordOf(record) == Base64Decode(record.ciphertextB64)[2][2]

\* The record read by an unlock was written under another password than the call's.
WrongPassword(r) ==
  /\ r.masterPassword # ""
  /\ r.masterPassword # PasswordOf(r.record)

\* The keypair a record holds: its public key and the private key that was encrypted.
Original(record) ==
  [publicKey |-> Base64Decode(record.publicKeyB64),
   privateKey |-> Base64Decode(record.ciphertextB64)[4]]

\* C24 as stated: whenever a persisted record exists, ensureClientKeypairUnlocked with
\* a password that does not open it throws MasterPasswordInvalid and returns no
\* keypair (unless IndexedDB fails).
C24_WrongSecretAlwaysRejected ==
  \A c \in Procs :
    LET r == kcall[c] IN
    /\ r.op = "unlock"
    /\ r.pc = "done"
    /\ r.persisted # NoRecord
    /\ r.masterPassword # ""
    /\ r.masterPassword # PasswordOf(r.persisted)
    /\ r.error # DB_ERROR
    => r.error = MASTER_PASSWORD_INVALID /\ r.result = NoKeypair

\* C24: an unlock that has read the persisted record (the keypair was not cached and
\* no other unlock was outstanding) throws MasterPasswordInvalid for a password that
\* does not open it and returns no keypair, leaving the cache empty and the record as
\* it was; with the password the record was written under it returns the record's
\* own keypair.
C24_WrongSecretRejected ==
  /\ [](\A c \in Procs :
          LET r == kcall[c] IN
          r.op = "unlock" /\ r.pc = "done" /\ r.record # NoRecord =>
            IF WrongPassword(r)
            THEN r.error = MASTER_PASSWORD_INVALID /\ r.result = NoKeypair
            ELSE r.error = "" /\ r.result = Original(r.record))
  /\ [][\A c \in Procs :
          UnlockKeypairDecrypted(c) /\ WrongPassword(kcall[c]) =>
            /\ keyStore.inMemoryKeypair = NoKeypair
            /\ keyStore'.inMemoryKeypair = NoKeypair
            /\ clientKeys' = clientKeys]_<<vars, nmVars, ksVars>>

\* A wrong password was rejected, and a later unlock with the right one returned the
\* keypair of the record an earlier run had persisted.
C24_Witness ==
  \E c, d \in Procs :
    /\ kcall[c].pc = "done"
    /\ kcall[c].error = MASTER_PASSWORD_INVALID
    /\ kcall[d].op = "unlock"
    /\ kcall[d].pc = "done"
    /\ ~kcall[d].cached
    /\ kcall[d].record = EarlierRecord
    /\ kcall[d].result = Keypair(0)
    /\ clientKeys = {EarlierRecord}

\* What the claim says of a call made without a password: it throws
\* MasterPasswordRequired and nothing is read, written or changed.
SecretRequired(c) ==
  /\ kcall'[c].pc = "done"
  /\ kcall'[c].error = MASTER_PASSWORD_REQUIRED
  /\ kcall'[c].result = NoKeypair
  /\ UNCHANGED <<keyStore, clientKeys, keysMade>>

\* C25 as stated: whenever the keypair is not cached, ensureClientKeypairUnlocked()
\* without a password throws MasterPasswordRequired and changes nothing.
C25_SecretRequiredWheneverLocked ==
  [][\A c \in Procs :
       EnsureUnlocked(c, "") /\ keyStore.inMemoryKeypair = NoKeypair
       => SecretRequired(c)]_<<vars, nmVars, ksVars>>

\* C25: when the keypair is not cached and no unlock is outstanding,
\* ensureClientKeypairUnlocked() without a password throws MasterPasswordRequired,
\* and neither the store nor the caches nor the unlock guard change.
C25_SecretRequired ==
  [][\A c \in Procs :
       /\ EnsureUnlocked(c, "")
       /\ keyStore.inMemoryKeypair = NoKeypair
       /\ ~keyStore.unlocking
       => SecretRequired(c)]_<<vars, nmVars, ksVars>>

\* A call without a password was refused while the keypair was locked and no
\* unlock outstanding.
C25_Witness ==
  \E c \in Procs :
    /\ kcall[c].op = "unlock"
    /\ kcall[c].pc = "done"
    /\ kcall[c].masterPassword = ""
    /\ ~kcall[c].cached
    /\ ~kcall[c].outstanding
    /\ kcall[c].error = MASTER_PASSWORD_REQUIRED

\* The records unlockKeypair can write: the public key in the clear, salt, nonce, the
\* private key encrypted under a key derived from a non-empty password, and the
\* creation time, under the fixed id.
WellFormedRecords ==
  {NewRecord(PublicKey(k), EncryptPrivateKey(PrivateKey(k), password, rnd), now) :
     k \in 0..MaxKeyCalls, password \in Passwords \ {""}, rnd \in Randoms,
     now \in 0..MaxKeyCalls}

\* A step of an ensureClientKeypairGeneratedForPairing() call of caller c.
PairingStep(c) ==
  \/ EnsureGeneratedForPairing(c)
  \/ GeneratedForPairing(c)
  \/ kcall[c].op = "generate" /\ (OpenDb(c) \/ DbFails(c))

\* C26: the store holds at most one record, under the fixed id, and it is one
\* unlockKeypair builds (no field holds the private key in the clear);
\* ensureClientKeypairGeneratedForPairing() writes nothing to the store, and the
\* keypair it generates is held in memory only.
C26_NoPlaintextPrivateKey ==
  /\ [](/\ clientKeys \subseteq WellFormedRecords
        /\ Cardinality(clientKeys) <= 1
        /\ \A r \in clientKeys :
             /\ r.id = KEY_ID
             /\ DOMAIN r = {"id", "publicKeyB64", "saltB64", "nonceB64", "ciphertextB64",
                            "createdAt"}
             /\ \A f \in DOMAIN r \ {"id"}, k \in 0..MaxKeyCalls :
                  r[f] # PrivateKey(k) /\ r[f] # Base64Encode(PrivateKey(k)))
  /\ [][\A c \in Procs : PairingStep(c) => clientKeys' = clientKeys]_<<vars, nmVars, ksVars>>

\* A keypair generated for pairing has been persisted by a later unlock.
C26_Witness ==
  \E c \in Procs :
    /\ kcall[c].op = "generate"
    /\ kcall[c].pc = "done"
    /\ kcall[c].result.privateKey # Null
    /\ \E r \in clientKeys : Base64Decode(r.publicKeyB64) = kcall[c].result.publicKey
    /\ keyStore.inMemoryKeypair = kcall[c].result

\* C27 as stated: an ensureSession() call made while no complete identity is pinned
\* (and whose own pairing check, if it made one, did not find one either) sends no
\* handshake message, fails with not paired and has sent the pairing-required
\* notification with that reason.
C27_NotPairedWheneverUnpaired ==
  \A p \in Procs :
    LET t == task[p] IN
    t.op = "ensure" /\ t.pc = "done" /\ ~t.pairedAtCall /\ t.pairedRead # "pinned" =>
      /\ t.begins = 0
      /\ t.res = NOT_PAIRED
      /\ t.notes = <<NOT_PAIRED>>

\* C27: an ensureSession() call that starts a handshake (no session active, none in
\* flight) and whose pairing check finds no complete pinned identity sends no
\* handshake message; it clears the pairing state, sends the pairing-required
\* notification with reason not paired and fails with not paired.
C27_NotPairedStopsHandshake ==
  \A p \in Procs :
    LET t == task[p] IN
    t.pairedRead = "absent" =>
      /\ t.begins = 0
      /\ t.pc \notin {"bh_enter", "bh_wait", "bh_pinned", "bh_digest", "fh_enter", "fh_wait"}
      /\ EnsureReturned(p) =>
           /\ t.res = NOT_PAIRED
           /\ t.unpairs = 1
           /\ t.notes # <<>>
           /\ t.notes[Len(t.notes)] = NOT_PAIRED

\* ensureSession() found no pinned identity and has failed.
C27_Witness ==
  \E p \in Procs :
    /\ task[p].op = "ensure"
    /\ task[p].pc = "done"
    /\ task[p].pairedRead = "absent"
    /\ task[p].res = NOT_PAIRED
    /\ task[p].notes = <<NOT_PAIRED>>

KeysUnavailableAnswer(p) ==
  /\ task[p].beginErr # "none"
  /\ Includes(task[p].beginErr, IDENTITY_KEYS_UNAVAILABLE)

\* C29: when the companion answers nmBeginHandshake with an IdentityKeysUnavailable
\* error, beginHandshake() returns exactly the IdentityKeysUnavailable code, and that
\* step changes neither the pairing nor the session (nothing cleared, nothing
\* notified, no session stored); the ensureSession() that ran the handshake then
\* clears the pairing once, notifies pairing-required with reason
\* IdentityKeysUnavailable, and fails with an error naming IdentityKeysUnavailable.
C29_KeysUnavailablePassedThrough ==
  /\ [](\A p \in Procs :
         LET t == task[p] IN
         /\ BeginReturned(p) /\ KeysUnavailableAnswer(p) =>
              /\ t.res = IDENTITY_KEYS_UNAVAILABLE
              /\ t.unpairs = 0 /\ t.keyclears = 0 /\ t.notes = <<>> /\ t.stored = 0
         /\ t.op = "ensure" /\ t.pc = "done" /\ KeysUnavailableAnswer(p) =>
              /\ t.res # OK
              /\ Includes(t.res, IDENTITY_KEYS_UNAVAILABLE)
              /\ t.unpairs = 1 /\ t.keyclears = 1
              /\ t.notes = <<IDENTITY_KEYS_UNAVAILABLE>>
              /\ t.stored = 0)
  /\ [][\A p \in Procs :
          (task[p].pc = "bh_wait" /\ task'[p].pc # "bh_wait"
             /\ task'[p].beginErr # "none"
             /\ Includes(task'[p].beginErr, IDENTITY_KEYS_UNAVAILABLE))
          => UNCHANGED <<store, session>>]_<<vars, nmVars, ksVars>>

\* ensureSession() has failed after the companion answered its nmBeginHandshake with
\* the longer IdentityKeysUnavailable message, and the pairing is cleared.
C29_Witness ==
  \E p \in Procs :
    /\ task[p].op = "ensure"
    /\ task[p].pc = "done"
    /\ task[p].beginErr = IDENTITY_KEYS_RESET
    /\ task[p].unpairs = 1
    /\ ~IsPaired

\* The companion's answer to nmBeginHandshake was an error that is none of the
\* errors the handshake treats specially.
UnexpectedBeginError(p) ==
  /\ task[p].beginErr # "none"
  /\ \A e \in {NOT_PAIRED, SIGNATURE_INVALID, IDENTITY_KEYS_UNAVAILABLE,
                MASTER_PASSWORD_REQUIRED, MASTER_PASSWORD_INVALID,
                CLIENT_SIGNATURE_INVALID} : ~Includes(task[p].beginErr, e)

\* C30: when nmBeginHandshake fails with an unexpected error, beginHandshake()
\* returns, and the ensureSession() that ran it fails with, the generic
\* HandshakeFailed reason.
C30_GenericHandshakeFailed ==
  \A p \in Procs :
    LET t == task[p] IN
    /\ BeginReturned(p) /\ UnexpectedBeginError(p) => t.res = HANDSHAKE_FAILED
    /\ t.op = "ensure" /\ t.pc = "done" /\ UnexpectedBeginError(p) =>
         t.res = HANDSHAKE_FAILED

\* C31: a single ensureSession() call, and a single secureRequest() call with its
\* re-handshake and retry, emits at most one pairing-required notification.
C31_NotifiedAtMostOnce ==
  \A p \in Procs :
    task[p].op \in {"ensure", "secure"} => Len(task[p].notes) <= 1

\* The failure reasons of the error taxonomy: a message that names one of the
\* pairing, security, session or auth errors, or a transport error.
InTaxonomy(m) ==
  \/ m \in {REQUEST_TIMEOUT, DISCONNECTED}
  \/ \E e \in {NOT_PAIRED, NO_SESSION, SESSION_NOT_FOUND, DECRYPT_FAILED, HANDSHAKE_FAILED,
               HANDSHAKE_FINISH_FAILED, SECURE_REQUEST_FAILED, SIGNATURE_INVALID,
               CLIENT_SIGNATURE_INVALID, IDENTITY_KEYS_UNAVAILABLE,
               MASTER_PASSWORD_REQUIRED, MASTER_PASSWORD_INVALID, UNLOCK_IN_PROGRESS} :
       Includes(m, e)

\* C32: secureRequest() ends with the result or with an error of the taxonomy, also
\* when the session is closed, cleared or replaced while an attempt awaits its
\* response; it never ends with a raw runtime fault.
C32_OnlyTaxonomyErrors ==
  \A p \in Procs :
    task[p].op = "secure" /\ task[p].pc = "done" =>
      task[p].res = OK \/ InTaxonomy(task[p].res)

\* The caller is inside a beginHandshake() that passed the verification, or inside
\* the finishHandshake() that ensureSession() runs after it.
PastVerification(p) ==
  \/ task[p].pc = "bh_digest"
  \/ task[p].op = "ensure" /\ task[p].pc \in {"fh_enter", "fh_wait", "ph_afterFinish"}
  \/ BeginReturned(p) /\ task[p].res = OK

\* C33: a session is stored, and ensureSession() sends nmFinishHandshake, only by a
\* handshake whose response was signed by the signing key that was pinned when the
\* handshake read the pinned identity; a response that fails the verification, or
\* one that finds nothing pinned, stores no session.
C33_SessionOnlyAfterVerification ==
  /\ [](\A p \in Procs :
         LET t == task[p] IN
         /\ PastVerification(p) =>
              /\ t.answered /\ t.verified /\ ~t.sigFailed
              /\ t.pinnedRead = "pinned"
              /\ t.pinnedId # NoIdentity
              /\ t.pc = "bh_digest" => t.signer = t.pinnedId.ed25519PublicKey
         /\ BeginReturned(p) /\ (t.sigFailed \/ t.pinnedRead = "absent") =>
              t.res # OK /\ t.stored = 0)
  /\ [][session'.id \notin {0, session.id} =>
          \E p \in Procs :
            /\ task[p].pc = "bh_digest"
            /\ task[p].sid = session'.id
            /\ task[p].verified
            /\ task[p].signer = task[p].pinnedId.ed25519PublicKey
            /\ task'[p].stored = task[p].stored + 1]_<<vars, nmVars, ksVars>>

\* ensureSession() has sent nmFinishHandshake for the session its handshake stored.
C33_Witness ==
  \E p \in Procs :
    /\ task[p].op = "ensure"
    /\ task[p].pc = "fh_wait"
    /\ task[p].stored = 1
    /\ task[p].pinnedId = MockIdentity
    /\ session.id # 0

\* C34: the one public key ensureClientKeypairGeneratedForPairing has returned is
\* the public key of the record ensureClientKeypairUnlocked persists and of the
\* keypair it caches, in every interleaving of the two operations.
C34_PairingKeyIsPersistedKey ==
  \A pk \in issued :
    issued = {pk} =>
      /\ GetKeyRecord(clientKeys) # NoRecord =>
           Base64Decode(GetKeyRecord(clientKeys).publicKeyB64) = pk
      /\ keyStore.inMemoryKeypair # NoKeypair => keyStore.inMemoryKeypair.publicKey = pk

\* C35: when two overlapping secureRequest() calls both re-handshake after a
\* retryable error, each call whose ensureSession() succeeded finds a session
\* active for its retry.
C35_SharedSessionSurvives ==
  \A p, q \in Procs :
    /\ p # q
    /\ task[p].op = "secure" /\ task[q].op = "secure"
    /\ task[p].ensures = 1 /\ task[q].ensures = 1
    /\ task[p].pc = "sr_afterEnsure" /\ task[p].res = OK
    => HasActiveSession

\* beginHandshake() failed for a reason other than not-paired and
\* IdentityKeysUnavailable.
OtherBeginFailure(e) ==
  /\ e # OK
  /\ ~Includes(e, NOT_PAIRED)
  /\ ~Includes(e, IDENTITY_KEYS_UNAVAILABLE)

\* C36: a beginHandshake() failure other than not-paired and IdentityKeysUnavailable
\* (timeout, disconnection, invalid signature, keystore error) clears neither the
\* pinned identity nor the client keypair and notifies nothing, in beginHandshake()
\* itself and in the ensureSession() that ran it.
C36_BeginFailureKeepsPairing ==
  /\ [](\A p \in Procs :
         LET t == task[p] IN
         /\ BeginReturned(p) /\ OtherBeginFailure(t.res) =>
              t.unpairs = 0 /\ t.keyclears = 0 /\ t.notes = <<>>
         /\ (t.op = "ensure" /\ t.pc = "done" /\ t.begins = 1 /\ t.stored = 0
               /\ OtherBeginFailure(t.res)) =>
              t.unpairs = 0 /\ t.keyclears = 0 /\ t.notes = <<>>)
  /\ [][\A p \in Procs :
          (task[p].op \in {"ensure", "begin"}
             /\ task[p].pc \in {"bh_wait", "bh_pinned", "ph_afterBegin"}
             /\ task'[p].pc \in {"ph_afterBegin", "ph_settle", "done"}
             /\ OtherBeginFailure(task'[p].res))
          => UNCHANGED <<store, keyRecord, inMemoryKeypair>>]_<<vars, nmVars, ksVars>>

\* ensureSession() has failed with the timeout of nmBeginHandshake and the client is
\* still paired.
C36_Witness ==
  \E p \in Procs :
    /\ task[p].op = "ensure"
    /\ task[p].pc = "done"
    /\ task[p].beginErr = REQUEST_TIMEOUT
    /\ task[p].res = REQUEST_TIMEOUT
    /\ task[p].unpairs = 0
    /\ IsPaired

\* finishHandshake() has just returned to the _performHandshake that called it.
FinishReturned(p) == task[p].pc = "ph_afterFinish"

\* C37: when finishHandshake() has returned, with success, with a failure reported
\* by the companion, after a missing session or ephemeral keypair, or after an
\* exception while signing or sending, the channel holds no ephemeral keypair.
C37_NoEphemeralAfterFinish ==
  \A p \in Procs : FinishReturned(p) => ~ephemeral

\* finishHandshake() has returned a failure while the handshake's session is held.
C37_Witness ==
  \E p \in Procs :
    /\ FinishReturned(p)
    /\ task[p].res \notin {OK, NO_SESSION}
    /\ session.id # 0
    /\ ~ephemeral

\* C38: closeSession(sessionId) drops only the session it was asked to close; a
\* session with another id that is held when nmCloseSession settles stays as it is.
C38_ClosesOnlyTheGivenSession ==
  [][\A p \in Procs :
       (task[p].op = "close" /\ task[p].pc = "cl_wait" /\ task'[p].pc # "cl_wait"
          /\ HasActiveSession /\ session.id # task[p].sentSid)
       => session' = session]_<<vars, nmVars, ksVars>>

\* The command of caller p's REQUEST message is not exempt.
NonExempt(p) ==
  /\ task[p].op = "request"
  /\ task[p].cmd \notin {"", "checkAvailability", "nmGetAppIdentity", "nmBeginHandshake",
                          "nmFinishHandshake", "nmSecureRequest", "nmCloseSession"}

BlockingReturned(p) == task[p].op = "blocking" /\ task[p].pc = "done"

\* C40: getBlockingState() clears the pairing (once, with reason DesktopNotPaired)
\* only after the companion answered available and not paired; with the pinned
\* identity or the persisted keypair missing it returns PAIRING without sending
\* anything; when the companion is unavailable or a request fails it returns
\* CONNECTION and has cleared nothing; outside its clearSession() no step of it
\* changes the session, the pinned identity or the client keypair.
C40_BlockingStateClearsOnlyWhenUnpaired ==
  /\ [](\A p \in Procs :
         LET t == task[p] IN
         t.op = "blocking" =>
           /\ t.unpairs + t.keyclears + Len(t.notes) > 0 =>
                /\ t.avail = "yes" /\ t.status = "no"
                /\ t.pinnedRead = "pinned" /\ t.hasKeypair = "yes"
                /\ t.reason = DESKTOP_NOT_PAIRED
                /\ t.unpairs = 1
           /\ BlockingReturned(p) /\ (t.pinnedRead = "absent" \/ t.hasKeypair = "no") =>
                t.res = PAIRING /\ t.clear = 0 /\ t.unpairs = 0 /\ t.notes = <<>>
           /\ BlockingReturned(p) /\ (t.avail \in {"no", "failed"} \/ t.status = "failed") =>
                /\ t.res = CONNECTION
                /\ t.unpairs = 0 /\ t.keyclears = 0 /\ t.drops = 0 /\ t.notes = <<>>
           /\ BlockingReturned(p) /\ t.status = "no" =>
                t.res = PAIRING /\ t.notes = <<DESKTOP_NOT_PAIRED>> /\ t.keyclears = 1
           /\ BlockingReturned(p) /\ t.status = "yes" => t.res = OK /\ t.unpairs = 0)
  /\ [][\A p \in Procs :
          (task[p].op = "blocking" /\ task'[p] # task[p]
             /\ task[p].pc \notin {"cs_enter", "cs_unpair", "cs_keys"})
          => UNCHANGED <<session, store, keyRecord, inMemoryKeypair, ephemeral>>
       ]_<<vars, nmVars, ksVars>>

\* getBlockingState() has returned CONNECTION after a failed pairing-status request,
\* with the client still paired.
C40_Witness ==
  \E p \in Procs :
    /\ BlockingReturned(p)
    /\ task[p].avail = "yes"
    /\ task[p].status = "failed"
    /\ task[p].res = CONNECTION
    /\ task[p].clear = 2
    /\ IsPaired

====
